---- MODULE Spec2Model ----
(***************************************************************************)
(* Retrieval and identity-resolution engine of muntuai-backend:            *)
(*   - node caching and invalidation    (engine/rag_engine.py)             *)
(*   - entity resolution and merging    (engine/entity_resolution.py)      *)
(*   - breadth-first graph traversal    (engine/graph_traversal.py)        *)
(* The graph store, the vector store and the distributed cache are the     *)
(* state; every handler is a sequence of steps over that state.            *)
(***************************************************************************)
EXTENDS Integers, Sequences, FiniteSets, TLC

VARIABLES
    nodes,        \* graph store: node id -> <<>> or <<[label, props]>>
    edges,        \* graph store: <<source id, type, target id>> -> number of relationships
    vectors,      \* vector store: <<collection, id>> -> <<>> or <<payload text>>
    node_cache,   \* in-process LRUCache: sequence of [key, value, expire], oldest first
    redis_cache,  \* distributed cache: key -> <<>> or <<[value, expire]>>
    now,          \* time.time()
    calls,        \* number of calls started so far
    proc,         \* per thread: program counter and locals of the running call
    writes,       \* history: node id -> the titles written to the store, in write order
    committed,    \* history: cache key -> position in writes of the newest write whose
                  \*          update_node_with_cache call has returned
    lastCall,     \* history: the call that returned most recently
    res,          \* entity resolution / merge call in progress
    trav,          \* traverse_from_seeds call in progress
    embedding_cache, \* in-process LRUCache of embeddings, as node_cache
    cold_storage, \* cold storage files: archive reference -> <<>> or <<node data>>
    pruning       \* pruning job: armed timers and runs in progress

vars == <<nodes, edges, vectors, node_cache, redis_cache, now, calls, proc,
          writes, committed, lastCall, res, trav, embedding_cache, cold_storage, pruning>>

(***************************************************************************)
(* Bounds                                                                  *)
(***************************************************************************)
MaxCalls == 3
MaxTime == 1800

None == <<>>
Some(x) == <<x>>
IsNone(o) == o = <<>>
Val(o) == o[1]

(***************************************************************************)
(* Graph store                                                             *)
(***************************************************************************)
NodeIds == {"a", "b", "c"}
CacheIds == {"a"}
NodeLabels == {"Person", "Message"}
Threads == {"t1", "t2"}

Has(f, k) == k \in DOMAIN f

\* SET n += props / SET n.k = v : props overwrite, other keys are kept
SetProps(old, props) ==
    [k \in (DOMAIN old) \cup (DOMAIN props) |->
        IF k \in DOMAIN props THEN props[k] ELSE old[k]]

\* MATCH (n:label) WHERE n.id = id RETURN n
get_node(g, label, id) ==
    IF id \in DOMAIN g /\ ~IsNone(g[id]) /\ Val(g[id]).label = label
    THEN Some(Val(g[id]).props) ELSE None

\* graph_db.update_node(node_id, properties)
update_node(g, id, props) ==
    IF id \in DOMAIN g /\ ~IsNone(g[id])
    THEN [g EXCEPT ![id] = Some([label |-> Val(g[id]).label,
                                 props |-> SetProps(Val(g[id]).props, props)])]
    ELSE g

Coalesce(f, k, d) == IF k \in DOMAIN f THEN f[k] ELSE d

\* MATCH (n) WHERE n.id = $node_id
\* SET n.last_accessed_at = datetime(), n.access_count = COALESCE(n.access_count, 0) + 1
update_node_access_timestamp(g, id, t) ==
    IF id \in DOMAIN g /\ ~IsNone(g[id])
    THEN update_node(g, id,
            [k \in {"last_accessed_at", "access_count"} |->
                IF k = "last_accessed_at" THEN t
                ELSE Coalesce(Val(g[id]).props, "access_count", 0) + 1])
    ELSE g

(***************************************************************************)
(* LRUCache (every method runs under self.lock, so each is one step)       *)
(***************************************************************************)
NodeCacheMaxSize == 2
NodeCacheTTL == 1800
RedisNodeTTL == 14400

IndexOf(cache, key) ==
    IF \E i \in 1..Len(cache) : cache[i].key = key
    THEN CHOOSE i \in 1..Len(cache) : cache[i].key = key
    ELSE 0

RemoveAt(s, i) == [j \in 1..(Len(s) - 1) |-> IF j < i THEN s[j] ELSE s[j + 1]]

\* LRUCache.get: the entry is popped and, when still live, re-inserted at the end
LRUGet(cache, key, t) ==
    LET i == IndexOf(cache, key) IN
    IF i = 0 THEN [cache |-> cache, value |-> None]
    ELSE IF cache[i].expire > t
         THEN [cache |-> Append(RemoveAt(cache, i), cache[i]),
               value |-> Some(cache[i].value)]
         ELSE [cache |-> RemoveAt(cache, i), value |-> None]

\* LRUCache.set
LRUSet(cache, key, value, t, max_size, ttl) ==
    LET i == IndexOf(cache, key)
        e == [key |-> key, value |-> value, expire |-> t + ttl]
    IN  IF i # 0 THEN Append(RemoveAt(cache, i), e)
        ELSE IF Len(cache) >= max_size THEN Append(Tail(cache), e)
        ELSE Append(cache, e)

\* LRUCache.delete
LRUDelete(cache, key) ==
    LET i == IndexOf(cache, key) IN
    IF i # 0 THEN RemoveAt(cache, i) ELSE cache

LRUHolds(cache, key) == IndexOf(cache, key) # 0

(***************************************************************************)
(* RedisCache                                                              *)
(***************************************************************************)
\* RedisCache.get: an entry past its TTL is gone
RedisGet(r, key, t) ==
    IF key \in DOMAIN r /\ ~IsNone(r[key]) /\ Val(r[key]).expire > t
    THEN Some(Val(r[key]).value) ELSE None

\* RedisCache.set (setex)
RedisSet(r, key, value, t, ttl) ==
    [k \in (DOMAIN r) \cup {key} |->
        IF k = key THEN Some([value |-> value, expire |-> t + ttl]) ELSE r[k]]

\* a delete that leaves the key in place
RedisDeleteKeep(r, key) == r

\* RedisCache.delete
RedisDelete(r, key) ==
    [k \in DOMAIN r |-> IF k = key THEN None ELSE r[k]]

\* RedisCache.flush (flushdb)
RedisFlush(r) == [k \in DOMAIN r |-> None]

RedisHolds(r, key, t) == ~IsNone(RedisGet(r, key, t))

(***************************************************************************)
(* rag_engine: node caching                                                *)
(***************************************************************************)
CacheKey(node_type, node_id) == <<node_type, node_id>>
NodeKeys == {CacheKey(l, i) : l \in NodeLabels, i \in CacheIds}

IdleProc == [pc |-> "idle"]

\* the property sets a caller passes to update_node_with_cache; every call
\* writes a fresh title so that two writes are never confused
UpdateProps(v) ==
    { [k \in {"title"} |-> v],
      [k \in {"title", "relationships"} |-> IF k = "title" THEN v ELSE 1] }

CacheGraph ==
    [i \in CacheIds |-> Some([label |-> "Person", props |-> [id |-> i, title |-> 0]])]

NoEdges == [e \in {} |-> 0]
NoVectors == [e \in {} |-> None]
IdleRes == [op |-> "none"]
NoArchive == [ref \in {} |-> None]
\* the threads that can run the pruning job: the timer threads of two
\* schedule_pruning_job chains and the thread serving /admin/prune
PruneThreads == {"timer1", "timer2", "http"}
\* no timer armed, no run of the pruning job in progress (runs[th] = 0)
IdlePruning == [armed |-> {}, runs |-> [th \in PruneThreads |-> 0]]
DefaultMaxNodesPerHop == 25
IdleCall == [pc |-> "idle"]
\* GraphTraversal.__init__ and no call in progress
IdleTrav == [self |-> [max_nodes_per_hop |-> DefaultMaxNodesPerHop],
             call |-> [t \in Threads |-> IdleCall]]

InitCache ==
    /\ nodes = CacheGraph
    /\ edges = NoEdges
    /\ vectors = NoVectors
    /\ node_cache = <<>>
    /\ redis_cache = [k \in NodeKeys |-> None]
    /\ now = 0
    /\ calls = 0
    /\ proc = [t \in Threads |-> IdleProc]
    /\ writes = [i \in CacheIds |-> <<0>>]
    /\ committed = [k \in NodeKeys |-> 1]
    /\ lastCall = [op |-> "none"]
    /\ res = IdleRes
    /\ trav = IdleTrav
    /\ embedding_cache = <<>>
    /\ cold_storage = NoArchive
    /\ pruning = IdlePruning

OtherUnchanged == UNCHANGED <<edges, vectors, res, trav, embedding_cache, cold_storage, pruning>>

Key(p) == CacheKey(proc[p].node_type, proc[p].node_id)

\* a thread calls get_node_with_cache(node_id, node_type, graph_db)
StartGet(p, node_id, node_type) ==
    /\ proc[p].pc = "idle"
    /\ calls < MaxCalls
    /\ calls' = calls + 1
    /\ proc' = [proc EXCEPT ![p] =
            [pc |-> "get_node_cache", op |-> "get",
             node_id |-> node_id, node_type |-> node_type,
             floor |-> committed[CacheKey(node_type, node_id)],
             after |-> lastCall]]
    /\ UNCHANGED <<nodes, node_cache, redis_cache, now, writes, committed, lastCall>>
    /\ OtherUnchanged

\* cached_node = node_cache.get(cache_key)
GetNodeCache(p) ==
    /\ proc[p].pc = "get_node_cache"
    /\ LET r == LRUGet(node_cache, Key(p), now) IN
         /\ node_cache' = r.cache
         /\ proc' = [proc EXCEPT ![p] =
               IF ~IsNone(r.value)
               THEN [proc[p] EXCEPT !.pc = "touch"] @@ [ret |-> r.value, src |-> "node_cache"]
               ELSE [proc[p] EXCEPT !.pc = "get_redis"]]
    /\ UNCHANGED <<nodes, redis_cache, now, calls, writes, committed, lastCall>>
    /\ OtherUnchanged

\* cached_node = redis_cache.get(cache_key)
GetRedis(p) ==
    /\ proc[p].pc = "get_redis"
    /\ LET v == RedisGet(redis_cache, Key(p), now) IN
         proc' = [proc EXCEPT ![p] =
               IF ~IsNone(v)
               THEN [proc[p] EXCEPT !.pc = "fill_node_cache"] @@ [ret |-> v, src |-> "redis"]
               ELSE [proc[p] EXCEPT !.pc = "get_store"]]
    /\ UNCHANGED <<nodes, node_cache, redis_cache, now, calls, writes, committed, lastCall>>
    /\ OtherUnchanged

\* node_cache.set(cache_key, cached_node) after a hit in the distributed tier
FillNodeCache(p) ==
    /\ proc[p].pc = "fill_node_cache"
    /\ node_cache' = LRUSet(node_cache, Key(p), Val(proc[p].ret), now,
                            NodeCacheMaxSize, NodeCacheTTL)
    /\ proc' = [proc EXCEPT ![p].pc = "touch"]
    /\ UNCHANGED <<nodes, redis_cache, now, calls, writes, committed, lastCall>>
    /\ OtherUnchanged

\* node_data_list = graph_db.get_node(label=node_type, match_props={'id': node_id})
GetStore(p) ==
    /\ proc[p].pc = "get_store"
    /\ LET v == get_node(nodes, proc[p].node_type, proc[p].node_id) IN
         proc' = [proc EXCEPT ![p] =
               [proc[p] EXCEPT !.pc = IF IsNone(v) THEN "done" ELSE "set_node_cache"]
                   @@ [ret |-> v, src |-> "store"]]
    /\ UNCHANGED <<nodes, node_cache, redis_cache, now, calls, writes, committed, lastCall>>
    /\ OtherUnchanged

\* node_cache.set(cache_key, node_data)
SetNodeCache(p) ==
    /\ proc[p].pc = "set_node_cache"
    /\ node_cache' = LRUSet(node_cache, Key(p), Val(proc[p].ret), now,
                            NodeCacheMaxSize, NodeCacheTTL)
    /\ proc' = [proc EXCEPT ![p].pc = "set_redis"]
    /\ UNCHANGED <<nodes, redis_cache, now, calls, writes, committed, lastCall>>
    /\ OtherUnchanged

\* redis_cache.set(cache_key, node_data, ttl=4*3600)
SetRedis(p) ==
    /\ proc[p].pc = "set_redis"
    /\ redis_cache' = RedisSet(redis_cache, Key(p), Val(proc[p].ret), now, RedisNodeTTL)
    /\ proc' = [proc EXCEPT ![p].pc = "touch"]
    /\ UNCHANGED <<nodes, node_cache, now, calls, writes, committed, lastCall>>
    /\ OtherUnchanged

\* update_node_access_timestamp(node_id, graph_db)
Touch(p) ==
    /\ proc[p].pc = "touch"
    /\ nodes' = update_node_access_timestamp(nodes, proc[p].node_id, now)
    /\ proc' = [proc EXCEPT ![p].pc = "done"]
    /\ UNCHANGED <<node_cache, redis_cache, now, calls, writes, committed, lastCall>>
    /\ OtherUnchanged

\* a thread calls update_node_with_cache(node_id, node_type, properties, graph_db)
StartUpdate(p, node_id, node_type, properties) ==
    /\ proc[p].pc = "idle"
    /\ calls < MaxCalls
    /\ calls' = calls + 1
    /\ proc' = [proc EXCEPT ![p] =
            [pc |-> "update_store", op |-> "update",
             node_id |-> node_id, node_type |-> node_type,
             properties |-> properties, dropped |-> FALSE, pos |-> 0]]
    /\ UNCHANGED <<nodes, node_cache, redis_cache, now, writes, committed, lastCall>>
    /\ OtherUnchanged

\* result = graph_db.update_node(node_id, properties)
UpdateStore(p) ==
    /\ proc[p].pc = "update_store"
    /\ nodes' = update_node(nodes, proc[p].node_id, proc[p].properties)
    /\ writes' = [writes EXCEPT ![proc[p].node_id] = Append(@, proc[p].properties.title)]
    /\ proc' = [proc EXCEPT ![p].pc = "invalidate_node_cache",
                            ![p].pos = Len(writes[proc[p].node_id]) + 1]
    /\ UNCHANGED <<node_cache, redis_cache, now, calls, committed, lastCall>>
    /\ OtherUnchanged

\* invalidate_node_cache: node_cache.delete(cache_key)
InvalidateNodeCache(p) ==
    /\ proc[p].pc = "invalidate_node_cache"
    /\ node_cache' = LRUDelete(node_cache, Key(p))
    /\ proc' = [proc EXCEPT ![p].pc = "invalidate_redis",
                            ![p].dropped = LRUHolds(node_cache, Key(p))]
    /\ UNCHANGED <<nodes, redis_cache, now, calls, writes, committed, lastCall>>
    /\ OtherUnchanged

\* invalidate_node_cache: redis_cache.delete(cache_key)
InvalidateRedis(p) ==
    /\ proc[p].pc = "invalidate_redis"
    /\ redis_cache' = RedisDelete(redis_cache, Key(p))
    /\ proc' = [proc EXCEPT ![p].pc =
            IF Has(proc[p].properties, "relationships") THEN "flush" ELSE "done"]
    /\ UNCHANGED <<nodes, node_cache, now, calls, writes, committed, lastCall>>
    /\ OtherUnchanged

\* invalidate_related_query_cache: redis_cache.flush()
Flush(p) ==
    /\ proc[p].pc = "flush"
    /\ redis_cache' = RedisFlush(redis_cache)
    /\ proc' = [proc EXCEPT ![p].pc = "done"]
    /\ UNCHANGED <<nodes, node_cache, now, calls, writes, committed, lastCall>>
    /\ OtherUnchanged

Max(x, y) == IF x >= y THEN x ELSE y

\* the call returns to its caller
Return(p) ==
    /\ proc[p].pc = "done"
    /\ proc' = [proc EXCEPT ![p] = IdleProc]
    /\ lastCall' = IF proc[p].op = "update"
                   THEN [op |-> "update", key |-> Key(p), dropped |-> proc[p].dropped,
                         title |-> proc[p].properties.title]
                   ELSE [op |-> "get"]
    /\ committed' = IF proc[p].op = "update"
                    THEN [committed EXCEPT ![Key(p)] = Max(@, proc[p].pos)]
                    ELSE committed
    /\ UNCHANGED <<nodes, node_cache, redis_cache, now, calls, writes>>
    /\ OtherUnchanged

\* time passes
Tick ==
    /\ now + NodeCacheTTL <= MaxTime
    /\ now' = now + NodeCacheTTL
    /\ UNCHANGED <<nodes, node_cache, redis_cache, calls, proc, writes, committed, lastCall>>
    /\ OtherUnchanged

CacheStep(p) ==
    \/ GetNodeCache(p) \/ GetRedis(p) \/ FillNodeCache(p) \/ GetStore(p)
    \/ SetNodeCache(p) \/ SetRedis(p) \/ Touch(p)
    \/ UpdateStore(p) \/ InvalidateNodeCache(p) \/ InvalidateRedis(p) \/ Flush(p)
    \/ Return(p)

CacheStart(p) ==
    \/ \E i \in CacheIds, l \in NodeLabels : StartGet(p, i, l)
    \/ \E i \in CacheIds, l \in NodeLabels :
          \E props \in UpdateProps(calls + 1) : StartUpdate(p, i, l, props)

\* threads interleave freely
NextCache ==
    \/ \E p \in Threads : CacheStart(p)
    \/ \E p \in Threads : CacheStep(p)
    \/ Tick

SpecCache == InitCache /\ [][NextCache]_vars

\* one call at a time: a call starts only when no other call is in progress
NextCacheSeq ==
    \/ \E p \in Threads : (\A q \in Threads : proc[q].pc = "idle") /\ CacheStart(p)
    \/ \E p \in Threads : CacheStep(p)
    \/ Tick

SpecCacheSeq == InitCache /\ [][NextCacheSeq]_vars

(***************************************************************************)
(* Graph used by entity resolution and traversal                           *)
(***************************************************************************)
RelTypes == {"KNOWS", "SAME_AS"}
IdSeq == <<"a", "b", "c">>
RelTypeSeq == <<"KNOWS", "SAME_AS">>
EdgeKeys == {<<s, t, d>> : s \in NodeIds, t \in RelTypes, d \in NodeIds}

Exists(g, id) == id \in DOMAIN g /\ ~IsNone(g[id])
Props(g, id) == Val(g[id]).props
Label(g, id) == Val(g[id]).label

\* MATCH (e:{entity_type}) WHERE e.id = $id RETURN e, matching any label
QueryByIdAnyLabel(g, entity_type, id) ==
    IF Exists(g, id) THEN Some(Props(g, id)) ELSE None

\* MATCH (e:{entity_type}) WHERE e.id = $id RETURN e
QueryById(g, entity_type, id) ==
    IF Exists(g, id) /\ Label(g, id) = entity_type THEN Some(Props(g, id)) ELSE None

\* MATCH (e:{entity_type}) WHERE e.id = $id SET e += $properties
SetById(g, entity_type, id, properties) ==
    IF Exists(g, id) /\ Label(g, id) = entity_type
    THEN [g EXCEPT ![id] = Some([label |-> entity_type,
                                 props |-> SetProps(Props(g, id), properties)])]
    ELSE g

\* the ids of the nodes carrying the label
NodesOfType(g, entity_type) ==
    {i \in DOMAIN g : Exists(g, i) /\ Label(g, i) = entity_type}

\* CREATE (source)-[r:{rel_type}]->(target): always a new relationship
CreateRel(e, s, t, d) == [e EXCEPT ![<<s, t, d>>] = @ + 1]

\* MATCH (source)-[r:{rel_type}]->(target) ... RETURN count(r)
RelCount(e, s, t, d) == e[<<s, t, d>>]

\* the number of relationships between two nodes, in either direction
RECURSIVE SumOver(_, _)
SumOver(f, S) ==
    IF S = {} THEN 0
    ELSE LET x == CHOOSE y \in S : TRUE IN f[x] + SumOver(f, S \ {x})

(***************************************************************************)
(* entity_resolution: matching strategies                                  *)
(* Text values (names, e-mail addresses, phone numbers, urls) are          *)
(* sequences of tokens; <<>> is the empty string.                          *)
(***************************************************************************)
FuzzyMatchThreshold == 85
SimilarityThreshold == 85
MinSharedCount == 2

Digits == {"1", "2"}

\* _normalize_phone: keep the digits
RECURSIVE normalize_phone(_)
normalize_phone(phone) ==
    IF phone = <<>> THEN <<>>
    ELSE IF Head(phone) \in Digits
         THEN <<Head(phone)>> \o normalize_phone(Tail(phone))
         ELSE normalize_phone(Tail(phone))

StripPrefix(url, prefix) ==
    IF url # <<>> /\ Head(url) = prefix THEN Tail(url) ELSE url

RECURSIVE RStripSlash(_)
RStripSlash(url) ==
    IF url # <<>> /\ url[Len(url)] = "/"
    THEN RStripSlash(SubSeq(url, 1, Len(url) - 1)) ELSE url

\* _normalize_url: drop "https://", then "http://", then "www.", then trailing slashes
normalize_url(url) ==
    RStripSlash(StripPrefix(StripPrefix(StripPrefix(url, "https://"), "http://"), "www."))

OptField(data, k, v) == IF Has(data, k) THEN <<<<k, v>>>> ELSE <<>>

\* the (property, value) pairs _match_by_identifiers queries, in order
Identifiers(data, entity_type) ==
    IF entity_type = "Person" THEN
        OptField(data, "email", IF Has(data, "email") THEN data.email ELSE <<>>)
        \o OptField(data, "phone", IF Has(data, "phone") THEN normalize_phone(data.phone) ELSE <<>>)
    ELSE IF entity_type = "Organization" THEN
        OptField(data, "website", IF Has(data, "website") THEN normalize_url(data.website) ELSE <<>>)
        \o OptField(data, "domain", IF Has(data, "domain") THEN data.domain ELSE <<>>)
        \o OptField(data, "tax_id", IF Has(data, "tax_id") THEN data.tax_id ELSE <<>>)
    ELSE IF entity_type = "Location" THEN
        OptField(data, "coordinates", IF Has(data, "coordinates") THEN data.coordinates ELSE <<>>)
        \o (IF Has(data, "address") /\ Has(data, "postal_code")
            THEN <<<<"address", data.address>>, <<"postal_code", data.postal_code>>>>
            ELSE <<>>)
    ELSE <<>>

\* MATCH (e:{entity_type}) WHERE e.{property_name} = $value RETURN e LIMIT 1
\* (any one of the matching nodes)
MatchByProp(g, entity_type, property_name, value) ==
    {i \in NodesOfType(g, entity_type) :
        Has(Props(g, i), property_name) /\ Props(g, i)[property_name] = value}

\* _match_by_identifiers: the first non-empty identifier with a hit wins
RECURSIVE FirstIdentifierHit(_, _, _)
FirstIdentifierHit(g, entity_type, identifiers) ==
    IF identifiers = <<>> THEN {}
    ELSE LET property_name == Head(identifiers)[1]
             value == Head(identifiers)[2]
             hits == MatchByProp(g, entity_type, property_name, value)
         IN  IF value # <<>> /\ hits # {} THEN hits
             ELSE FirstIdentifierHit(g, entity_type, Tail(identifiers))

match_by_identifiers(g, vs, data, entity_type) ==
    FirstIdentifierHit(g, entity_type, Identifiers(data, entity_type))

\* how many tokens of s are matched by distinct tokens of t
RECURSIVE CommonTokens(_, _)
CommonTokens(s, t) ==
    IF s = <<>> THEN 0
    ELSE IF \E i \in 1..Len(t) : t[i] = Head(s)
         THEN 1 + CommonTokens(Tail(s), RemoveAt(t, CHOOSE i \in 1..Len(t) : t[i] = Head(s)))
         ELSE CommonTokens(Tail(s), t)

\* fuzz.token_sort_ratio: 100 * 2 * matches / total length, on the sorted tokens,
\* with a token as the unit of comparison
token_sort_ratio(s, t) ==
    IF Len(s) + Len(t) = 0 THEN 100
    ELSE (200 * CommonTokens(s, t)) \div (Len(s) + Len(t))

NameField(data) == IF Has(data, "name") THEN "name" ELSE "text"

MaxOf(S) == CHOOSE x \in S : \A y \in S : y <= x

\* _match_by_fuzzy_name: the best-scoring candidate at or above the threshold
\* (process.extractBests keeps the order of the candidates among equal scores,
\* and the query returns the candidates in no particular order)
match_by_fuzzy_name(g, vs, data, entity_type) ==
    LET name_field == NameField(data) IN
    IF ~Has(data, name_field) THEN {}
    ELSE LET candidates == {i \in NodesOfType(g, entity_type) :
                              Has(Props(g, i), name_field) /\ Props(g, i)[name_field] # <<>>}
             score(i) == token_sort_ratio(data[name_field], Props(g, i)[name_field])
             matches == {i \in candidates : score(i) >= FuzzyMatchThreshold}
         IN  IF matches = {} THEN {}
             ELSE {i \in matches : score(i) = MaxOf({score(j) : j \in matches})}

\* the text _match_by_embedding and _update_entity_embedding embed
EntityText(data) ==
    LET name_field == NameField(data) IN
    data[name_field] \o (IF Has(data, "description") THEN <<" ">> \o data.description ELSE <<>>)

\* cosine similarity of two embedded texts, in percent: the embedding service is a
\* black box, so equal token multisets score 100 and the score falls with the share
\* of tokens that differ
cosine(s, t) == token_sort_ratio(s, t)

\* _match_by_embedding: the results come sorted by score; the first one at or above
\* the threshold whose node exists under the label is returned
match_by_embedding(g, vs, data, entity_type) ==
    LET name_field == NameField(data) IN
    IF ~Has(data, name_field) THEN {}
    ELSE LET points == {k \in DOMAIN vs : k[1] = entity_type /\ ~IsNone(vs[k])}
             score(k) == cosine(EntityText(data), Val(vs[k]).text)
             usable == {k \in points : /\ score(k) >= SimilarityThreshold
                                       /\ ~IsNone(QueryById(g, entity_type, Val(vs[k]).id))}
         IN  IF usable = {} THEN {}
             ELSE {Val(vs[k]).id : k \in {u \in usable : score(u) = MaxOf({score(j) : j \in usable})}}

\* count(other): the relationships between e and the related ids, in either direction
SharedCount(e, i, related_ids) ==
    SumOver(e, {k \in DOMAIN e :
                  \/ k[1] = i /\ k[3] \in related_ids
                  \/ k[3] = i /\ k[1] \in related_ids /\ k[1] # i})

\* the target ids of the relationship hints
RECURSIVE TargetIds(_)
TargetIds(rels) ==
    IF rels = <<>> THEN {}
    ELSE (IF Has(Head(rels), "target_id") THEN {Head(rels).target_id} ELSE {})
         \cup TargetIds(Tail(rels))

\* _match_by_relationships: ORDER BY shared_count DESC LIMIT 1 over shared_count >= 2
match_by_relationships_in(g, e, data, entity_type) ==
    IF ~Has(data, "relationships") \/ data.relationships = <<>> THEN {}
    ELSE LET related_ids == TargetIds(data.relationships)
             cands == {i \in NodesOfType(g, entity_type) :
                          SharedCount(e, i, related_ids) >= MinSharedCount}
         IN  IF related_ids = {} \/ cands = {} THEN {}
             ELSE {i \in cands : SharedCount(e, i, related_ids) =
                                 MaxOf({SharedCount(e, j, related_ids) : j \in cands})}

(***************************************************************************)
(* entity_resolution: resolve_entity                                       *)
(***************************************************************************)
StrategyOrderFuzzyFirst == <<"fuzzy", "identifiers", "embedding", "relationships">>

\* the order in which resolve_entity calls the strategies
StrategyOrder == <<"identifiers", "fuzzy", "embedding", "relationships">>

\* the nodes a strategy may return (none: the strategy returns None)
StrategyHits(g, e, vs, strategy, data, entity_type) ==
    IF strategy = "identifiers" THEN match_by_identifiers(g, vs, data, entity_type)
    ELSE IF strategy = "fuzzy" THEN match_by_fuzzy_name(g, vs, data, entity_type)
    ELSE IF strategy = "embedding" THEN match_by_embedding(g, vs, data, entity_type)
    ELSE match_by_relationships_in(g, e, data, entity_type)

\* resolve_entity: the strategies evaluated and the hits of the last one
RECURSIVE RunStrategies(_, _, _, _, _, _, _)
RunStrategies(g, e, vs, order, tried, data, entity_type) ==
    IF order = <<>> THEN [tried |-> tried, hits |-> {}]
    ELSE LET hits == StrategyHits(g, e, vs, Head(order), data, entity_type) IN
         IF hits # {} THEN [tried |-> Append(tried, Head(order)), hits |-> hits]
         ELSE RunStrategies(g, e, vs, Tail(order), Append(tried, Head(order)), data, entity_type)

(***************************************************************************)
(* entity_resolution: merge_entities                                       *)
(***************************************************************************)
MergeStrategies == {"newer_wins", "source_wins", "target_wins"}

TextKeys == {"name", "text", "email", "phone", "description", "title"}
BoolKeys == {"merged"}
IdKeys == {"merged_into"}
\* key.endswith("_at") or key == "timestamp"
IsDateKey(key) == key \in {"created_at", "merged_at", "last_accessed_at", "archived_at", "timestamp"}

\* Python truth value of a property value
Truthy(key, value) ==
    IF key \in TextKeys THEN value # <<>>
    ELSE IF key \in BoolKeys THEN value
    ELSE IF key \in IdKeys THEN value # ""
    ELSE value # 0

\* a date property is a datetime, written as the number of its instant, or an ISO
\* string, written IsoBase + the instant it denotes; 0 is the empty value
IsoBase == 10000

\* isinstance(v, str)
IsIsoString(v) == v >= IsoBase

\* datetime.fromisoformat(v)
fromisoformat(v) == v - IsoBase

\* the date that is compared and stored
ParseDate(v) == IF IsIsoString(v) THEN fromisoformat(v) ELSE v

\* newer_wins taking the source's date whenever it has one
MergeConflictSourceDate(key, source_value, target_value, merge_strategy) ==
    IF merge_strategy = "newer_wins" THEN
        IF IsDateKey(key) THEN
            IF Truthy(key, source_value) /\ Truthy(key, target_value)
            THEN ParseDate(source_value)
            ELSE target_value
        ELSE IF key = "confidence" THEN Max(source_value, target_value)
        ELSE IF ~Truthy(key, target_value) /\ Truthy(key, source_value) THEN source_value
        ELSE target_value
    ELSE IF merge_strategy = "source_wins" THEN source_value
    ELSE target_value

\* the value _merge_properties keeps for a key present on both entities
MergeConflict(key, source_value, target_value, merge_strategy) ==
    IF merge_strategy = "newer_wins" THEN
        IF IsDateKey(key) THEN
            IF Truthy(key, source_value) /\ Truthy(key, target_value)
            THEN (IF ParseDate(source_value) > ParseDate(target_value)
                  THEN ParseDate(source_value) ELSE ParseDate(target_value))
            ELSE target_value
        ELSE IF key = "confidence" THEN Max(source_value, target_value)
        ELSE IF ~Truthy(key, target_value) /\ Truthy(key, source_value) THEN source_value
        ELSE target_value
    ELSE IF merge_strategy = "source_wins" THEN source_value
    ELSE target_value

\* merged_count taken from the merged map instead of the target entity
MergedCountOfMerged(source_entity, target_entity) ==
    LET m == SetProps(source_entity, target_entity) IN
    (IF Has(m, "merged_count") THEN m.merged_count ELSE 0) + 1

\* (target_entity.get("merged_count", 0) or 0) + 1
MergedCount(source_entity, target_entity) ==
    (IF Has(target_entity, "merged_count") THEN target_entity.merged_count ELSE 0) + 1

\* _merge_properties
merge_properties(source_entity, target_entity, merge_strategy) ==
    LET skip == {"id", "labels"}
        tkeys == (DOMAIN target_entity) \ skip
        skeys == (DOMAIN source_entity) \ skip
    IN  [key \in tkeys \cup skeys \cup {"merged_count"} |->
            IF key = "merged_count" THEN MergedCount(source_entity, target_entity)
            ELSE IF key \notin tkeys THEN source_entity[key]
            ELSE IF key \notin skeys THEN target_entity[key]
            ELSE MergeConflict(key, source_entity[key], target_entity[key], merge_strategy)]

\* the rows of outgoing_query / incoming_query: one row (rel_type, other node) for
\* every relationship of the source
RECURSIVE Repeat(_, _)
Repeat(x, n) == IF n = 0 THEN <<>> ELSE <<x>> \o Repeat(x, n - 1)

RECURSIVE RowsFrom(_, _, _, _)
RowsFrom(e, id, outgoing, k) ==
    IF k > Len(RelTypeSeq) * Len(IdSeq) THEN <<>>
    ELSE LET t == RelTypeSeq[((k - 1) \div Len(IdSeq)) + 1]
             x == IdSeq[((k - 1) % Len(IdSeq)) + 1]
             n == IF outgoing THEN RelCount(e, id, t, x) ELSE RelCount(e, x, t, id)
         IN  Repeat([rel_type |-> t, other |-> x], n) \o RowsFrom(e, id, outgoing, k + 1)

OutgoingRels(e, id) == RowsFrom(e, id, TRUE, 1)
IncomingRels(e, id) == RowsFrom(e, id, FALSE, 1)

RelExistsNever(e, s, t, d) == FALSE

\* check_query: rel_exists = check_result[0]["rel_count"] > 0
RelExists(e, s, t, d) == RelCount(e, s, t, d) > 0

\* the loop over outgoing_rels: re-create each one from the target unless it exists
RECURSIVE TransferOutgoing(_, _, _)
TransferOutgoing(e, rels, target_id) ==
    IF rels = <<>> THEN e
    ELSE LET rel == Head(rels)
             e2 == IF ~RelExists(e, target_id, rel.rel_type, rel.other)
                   THEN CreateRel(e, target_id, rel.rel_type, rel.other) ELSE e
         IN  TransferOutgoing(e2, Tail(rels), target_id)

\* the loop over incoming_rels
RECURSIVE TransferIncoming(_, _, _)
TransferIncoming(e, rels, target_id) ==
    IF rels = <<>> THEN e
    ELSE LET rel == Head(rels)
             e2 == IF ~RelExists(e, rel.other, rel.rel_type, target_id)
                   THEN CreateRel(e, rel.other, rel.rel_type, target_id) ELSE e
         IN  TransferIncoming(e2, Tail(rels), target_id)

\* _transfer_relationships: both queries run first, then the two loops; every
\* query matches the source (or the target) under the label {entity_type}
transfer_relationships(g, e, source_id, target_id, entity_type) ==
    LET source_ok == ~IsNone(QueryById(g, entity_type, source_id))
        target_ok == ~IsNone(QueryById(g, entity_type, target_id))
        outgoing_rels == IF source_ok THEN OutgoingRels(e, source_id) ELSE <<>>
        incoming_rels == IF source_ok THEN IncomingRels(e, source_id) ELSE <<>>
    IN  IF target_ok
        THEN TransferIncoming(TransferOutgoing(e, outgoing_rels, target_id),
                              incoming_rels, target_id)
        ELSE e

MarkMergedIntoSelf(source_id, target_id, merged_at) ==
    [k \in {"merged", "merged_into", "merged_at"} |->
        IF k = "merged" THEN TRUE ELSE IF k = "merged_into" THEN source_id ELSE merged_at]

\* mark_merged_query: SET e.merged = true, e.merged_into = $target_id, e.merged_at = $merged_at
MarkMerged(source_id, target_id, merged_at) ==
    [k \in {"merged", "merged_into", "merged_at"} |->
        IF k = "merged" THEN TRUE ELSE IF k = "merged_into" THEN target_id ELSE merged_at]

\* text_to_embed = entity_properties.get("name", "") or entity_properties.get("text", "")
TextToEmbed(entity_properties) ==
    LET base == IF Has(entity_properties, "name") /\ entity_properties.name # <<>>
                THEN entity_properties.name
                ELSE IF Has(entity_properties, "text") THEN entity_properties.text ELSE <<>>
    IN  base \o (IF Has(entity_properties, "description")
                 THEN <<" ">> \o entity_properties.description ELSE <<>>)

\* _update_entity_embedding: nothing is upserted for an empty text
update_entity_embedding(vs, entity_id, entity_type, entity_properties) ==
    LET text_to_embed == TextToEmbed(entity_properties)
        key == <<entity_type, entity_id>>
    IN  IF text_to_embed = <<>> THEN vs
        ELSE [k \in (DOMAIN vs) \cup {key} |->
                IF k = key THEN Some([id |-> entity_id, text |-> text_to_embed]) ELSE vs[k]]

(***************************************************************************)
(* entity_resolution: the calls                                            *)
(***************************************************************************)
MaxMerges == 2
MaxTransferMerges == 1
MaxEdges == 2

MergeIds == NodeIds \cup {"z"}

Rec1(k1, v1) == [k \in {k1} |-> v1]
Rec2(k1, v1, k2, v2) == [k \in {k1, k2} |-> IF k = k1 THEN v1 ELSE v2]

\* three Person nodes; the vector of c was embedded from an earlier name
PersonGraph ==
    [i \in NodeIds |->
        Some([label |-> "Person",
              props |->
                IF i = "a" THEN [id |-> "a", name |-> <<"al", "bo">>, email |-> <<"e1">>,
                                 phone |-> <<"1", "2">>, title |-> <<"dr">>, created_at |-> 1]
                ELSE IF i = "b" THEN [id |-> "b", name |-> <<"bea">>, email |-> <<"e2">>,
                                      title |-> <<>>, created_at |-> 2]
                ELSE [id |-> "c", name |-> <<"cy">>, created_at |-> 3]])]

PersonVectors ==
    [k \in {<<"Person", i>> : i \in NodeIds} |->
        Some([id |-> k[2],
              text |-> IF k[2] = "c" THEN <<"kim">> ELSE Val(PersonGraph[k[2]]).props.name])]

\* the candidates handed to resolve_entity
ResolveInputs ==
    { [data |-> Rec1("email", <<"e1">>), entity_type |-> "Person"],
      [data |-> Rec2("email", <<"e1">>, "name", <<"bea">>), entity_type |-> "Person"],
      [data |-> Rec2("email", <<>>, "phone", <<"1", "-", "2">>), entity_type |-> "Person"],
      [data |-> Rec1("name", <<"bo", "al">>), entity_type |-> "Person"],
      [data |-> Rec1("name", <<"kim">>), entity_type |-> "Person"],
      [data |-> Rec2("name", <<"zed">>, "relationships",
                     <<Rec1("target_id", "a"), Rec1("target_id", "b")>>),
       entity_type |-> "Person"],
      [data |-> Rec1("website", <<"https://", "www.", "x.com", "/">>),
       entity_type |-> "Organization"] }

\* the arguments handed to merge_entities
MergeInputs ==
    { [source_id |-> s, target_id |-> t, entity_type |-> "Person",
       merge_strategy |-> "newer_wins"] : s \in NodeIds, t \in NodeIds }
    \cup { [source_id |-> s, target_id |-> t, entity_type |-> "Person", merge_strategy |-> m] :
              s \in {"a", "b"}, t \in {"a", "b"}, m \in MergeStrategies }
    \cup { [source_id |-> "z", target_id |-> "a", entity_type |-> "Person",
            merge_strategy |-> "newer_wins"],
           [source_id |-> "a", target_id |-> "z", entity_type |-> "Person",
            merge_strategy |-> "newer_wins"],
           [source_id |-> "a", target_id |-> "b", entity_type |-> "Organization",
            merge_strategy |-> "newer_wins"] }

EmptyEdges == [k \in EdgeKeys |-> 0]

\* every graph with at most n relationships
RECURSIVE EdgeBags(_)
EdgeBags(n) ==
    IF n = 0 THEN {EmptyEdges}
    ELSE LET smaller == EdgeBags(n - 1) IN
         smaller \cup {CreateRel(e, k[1], k[2], k[3]) : e \in smaller, k \in EdgeKeys}

\* c is connected to a and to b
SharedEdges ==
    [k \in EdgeKeys |-> IF k \in {<<"c", "KNOWS", "a">>, <<"b", "KNOWS", "c">>} THEN 1 ELSE 0]

InitER(edgeSets) ==
    /\ nodes = PersonGraph
    /\ edges \in edgeSets
    /\ vectors = PersonVectors
    /\ node_cache = <<>>
    /\ redis_cache = [k \in {} |-> None]
    /\ now = 0
    /\ calls = 0
    /\ proc = [t \in Threads |-> IdleProc]
    /\ writes = [i \in {} |-> <<>>]
    /\ committed = [k \in {} |-> 0]
    /\ lastCall = [op |-> "none"]
    /\ res = IdleRes
    /\ trav = IdleTrav
    /\ embedding_cache = <<>>
    /\ cold_storage = NoArchive
    /\ pruning = IdlePruning

ERUnchanged ==
    UNCHANGED <<node_cache, redis_cache, proc, writes, committed, lastCall, trav,
                embedding_cache, cold_storage, pruning>>

\* resolve_entity(entity_data, entity_type)
ResolveEntity(in) ==
    LET run == RunStrategies(nodes, edges, vectors, StrategyOrder, <<>>,
                             in.data, in.entity_type)
    IN  /\ \E result \in (IF run.hits = {} THEN {None}
                          ELSE {Some(Props(nodes, i)) : i \in run.hits}) :
              res' = [op |-> "resolve", data |-> in.data, entity_type |-> in.entity_type,
                      tried |-> run.tried, result |-> result]
        /\ UNCHANGED <<nodes, edges, vectors, now, calls>>
        /\ ERUnchanged

\* merge_entities(source_id, target_id, entity_type, merge_strategy)
MergeEntities(limit, in) ==
    LET source_result == QueryById(nodes, in.entity_type, in.source_id)
        target_result == QueryById(nodes, in.entity_type, in.target_id)
    IN  IF IsNone(source_result) \/ IsNone(target_result)
        THEN \* raise ValueError
             /\ res' = [op |-> "merge", source_id |-> in.source_id,
                        target_id |-> in.target_id, entity_type |-> in.entity_type,
                        merge_strategy |-> in.merge_strategy, result |-> "error"]
             /\ UNCHANGED <<nodes, edges, vectors, now, calls>>
             /\ ERUnchanged
        ELSE LET source_entity == Val(source_result)
                 target_entity == Val(target_result)
                 merged_properties ==
                     merge_properties(source_entity, target_entity, in.merge_strategy)
                 updated == SetById(nodes, in.entity_type, in.target_id, merged_properties)
                 marked == SetById(updated, in.entity_type, in.source_id,
                                   MarkMerged(in.source_id, in.target_id, now + 1))
             IN  /\ calls < limit
                 /\ calls' = calls + 1
                 /\ now' = now + 1
                 /\ nodes' = marked
                 /\ edges' = transfer_relationships(updated, edges, in.source_id,
                                                    in.target_id, in.entity_type)
                 /\ vectors' = update_entity_embedding(vectors, in.target_id,
                                                       in.entity_type, merged_properties)
                 /\ res' = [op |-> "merge", source_id |-> in.source_id,
                            target_id |-> in.target_id, entity_type |-> in.entity_type,
                            merge_strategy |-> in.merge_strategy, result |-> "ok",
                            source_entity |-> source_entity,
                            target_entity |-> target_entity,
                            outgoing_rels |-> OutgoingRels(edges, in.source_id),
                            incoming_rels |-> IncomingRels(edges, in.source_id),
                            merged |-> QueryById(marked, in.entity_type, in.target_id)]
                 /\ ERUnchanged

NextER ==
    \/ \E in \in ResolveInputs : ResolveEntity(in)
    \/ \E in \in MergeInputs : MergeEntities(MaxMerges, in)

SpecER == InitER({EmptyEdges, SharedEdges}) /\ [][NextER]_vars

\* the graphs range over every shape on the three nodes, so the merges between
\* a and b (and of a with itself or an unknown node) stand for all pairs
TransferInputs ==
    {in \in MergeInputs : /\ in.merge_strategy = "newer_wins"
                          /\ in.entity_type = "Person"
                          /\ in.source_id \in {"a", "b"}
                          /\ in.target_id \in {"a", "b", "z"}}

NextTransfer == \E in \in TransferInputs : MergeEntities(MaxTransferMerges, in)

SpecTransfer == InitER(EdgeBags(MaxEdges)) /\ [][NextTransfer]_vars

(***************************************************************************)
(* graph_db: Neo4jWrapper with the schema of graph_schema                  *)
(***************************************************************************)
MaxDBRels == 2

\* NODE_TYPES: the declared property names of the node types used here
NODE_TYPES ==
    [l \in {"Person", "Message"} |->
        IF l = "Person"
        THEN {"id", "name", "email", "phone", "title", "organization_id",
              "first_contact_date", "last_contact_date", "source", "embedding_id",
              "created_at"}
        ELSE {"id", "content", "sender_id", "channel_id", "thread_id", "timestamp",
              "read_status", "has_attachments", "sentiment", "intent", "is_actionable",
              "reply_to_id", "embedding_id", "created_at"}]

\* RELATIONSHIP_TYPES: two of the declared relationship types
RELATIONSHIP_TYPES ==
    [t \in {"SAME_AS", "AUTHORED"} |->
        IF t = "SAME_AS"
        THEN [valid_sources |-> {"Person", "Organization"},
              valid_targets |-> {"Person", "Organization"},
              properties |-> {"match_confidence", "evidence_sources", "channels"}]
        ELSE [valid_sources |-> {"Person", "User"},
              valid_targets |-> {"Message"},
              properties |-> {"timestamp", "channel_id", "message_type", "context_tags"}]]

ValidateNodeLabelOnly(label, properties) == label \in DOMAIN NODE_TYPES

\* create_node / merge_node: the checks before the session
ValidateNode(label, properties) ==
    /\ label \in DOMAIN NODE_TYPES
    /\ \A prop \in DOMAIN properties : prop \in NODE_TYPES[label]

\* create_relationship / merge_relationship: the checks before the session
ValidateRelationship(from_label, to_label, rel_type, rel_props) ==
    /\ rel_type \in DOMAIN RELATIONSHIP_TYPES
    /\ from_label \in RELATIONSHIP_TYPES[rel_type].valid_sources
    /\ to_label \in RELATIONSHIP_TYPES[rel_type].valid_targets
    /\ \A prop \in DOMAIN rel_props : prop \in RELATIONSHIP_TYPES[rel_type].properties

DBIds == {"a", "b"}
DBEdgeKeys == {<<s, t, d>> : s \in DBIds, t \in DOMAIN RELATIONSHIP_TYPES, d \in DBIds}

NoProps == [k \in {} |-> <<>>]

\* label and properties handed to create_node / merge_node
NodeInputs ==
    { [label |-> l, properties |-> p] :
        l \in {"Person", "Message", "Robot"},
        p \in UNION {{Rec1("id", i), Rec2("id", i, "name", <<"al">>),
                      Rec2("id", i, "nickname", <<"al">>)} : i \in DBIds} }

\* arguments of create_relationship / merge_relationship
RelInputs ==
    { [from_label |-> fl, to_label |-> tl, rel_type |-> t,
       from_id |-> "a", to_id |-> "b", rel_props |-> p] :
        fl \in {"Person", "Message"}, tl \in {"Person", "Message"},
        t \in {"SAME_AS", "AUTHORED", "KNOWS"},
        p \in {NoProps, Rec1("match_confidence", 1), Rec1("weight", 1)} }

\* arguments of update_node and delete_node
UpdateInputs ==
    { [label |-> l, id |-> i, update_props |-> p] :
        l \in {"Person", "Message"}, i \in DBIds,
        p \in {Rec1("name", <<"bo">>), Rec1("nickname", <<"bo">>)} }

DeleteInputs == { [label |-> l, id |-> i] : l \in {"Person", "Message"}, i \in DBIds }

HasLabel(g, label, id) == Exists(g, id) /\ Label(g, id) = label

\* CREATE (n:label $properties)
CreateNodeQuery(g, label, properties) ==
    [g EXCEPT ![properties.id] = Some([label |-> label, props |-> properties])]

\* MERGE (n:label {id: $id}) SET n += $properties
MergeNodeQuery(g, label, properties) ==
    IF HasLabel(g, label, properties.id)
    THEN SetById(g, label, properties.id, properties)
    ELSE CreateNodeQuery(g, label, properties)

\* MERGE (a)-[r:rel_type]->(b): a relationship is created only when there is none
MergeRel(e, s, t, d) == IF RelCount(e, s, t, d) > 0 THEN e ELSE CreateRel(e, s, t, d)

\* MATCH (n:label) WHERE n.id = $id SET n.k = $update_k
Neo4jUpdateNode(g, label, id, update_props) == SetById(g, label, id, update_props)

\* MATCH (n:label) WHERE n.id = $id DETACH DELETE n: the node
DeleteNodeQuery(g, label, id) ==
    IF HasLabel(g, label, id) THEN [g EXCEPT ![id] = None] ELSE g

\* MATCH (n:label) WHERE n.id = $id DETACH DELETE n: its relationships
DetachRels(g, e, label, id) ==
    IF HasLabel(g, label, id)
    THEN [k \in DOMAIN e |-> IF k[1] = id \/ k[3] = id THEN 0 ELSE e[k]]
    ELSE e

TotalRels(e) == SumOver(e, DOMAIN e)

InitDB ==
    /\ nodes = [i \in DBIds |-> None]
    /\ edges = [k \in DBEdgeKeys |-> 0]
    /\ vectors = NoVectors
    /\ node_cache = <<>>
    /\ redis_cache = [k \in {} |-> None]
    /\ now = 0
    /\ calls = 0
    /\ proc = [t \in Threads |-> IdleProc]
    /\ writes = [i \in {} |-> <<>>]
    /\ committed = [k \in {} |-> 0]
    /\ lastCall = [op |-> "none"]
    /\ res = IdleRes
    /\ trav = IdleTrav
    /\ embedding_cache = <<>>
    /\ cold_storage = NoArchive
    /\ pruning = IdlePruning

DBUnchanged ==
    UNCHANGED <<vectors, node_cache, redis_cache, now, calls, proc, writes, committed,
                lastCall, trav, embedding_cache, cold_storage, pruning>>

\* the id is free, or held by a node of this label (one node per id in the model)
IdUsable(g, label, id) == IF Exists(g, id) THEN Label(g, id) = label ELSE TRUE

\* Neo4jWrapper.create_node(label, properties)
CreateNode(in) ==
    /\ IF ~ValidateNode(in.label, in.properties)
       THEN /\ res' = [op |-> "create_node", in |-> in, session |-> FALSE,
                       result |-> "ValueError"]
            /\ UNCHANGED nodes
       ELSE /\ IdUsable(nodes, in.label, in.properties.id)
            /\ IF Exists(nodes, in.properties.id)
               THEN \* the unique constraint on id refuses the second node
                    /\ res' = [op |-> "create_node", in |-> in, session |-> TRUE,
                               result |-> "ConstraintError"]
                    /\ UNCHANGED nodes
               ELSE /\ res' = [op |-> "create_node", in |-> in, session |-> TRUE,
                               result |-> "ok"]
                    /\ nodes' = CreateNodeQuery(nodes, in.label, in.properties)
    /\ UNCHANGED edges
    /\ DBUnchanged

\* Neo4jWrapper.merge_node(label, properties)
MergeNode(in) ==
    /\ IF ~ValidateNode(in.label, in.properties)
       THEN /\ res' = [op |-> "merge_node", in |-> in, session |-> FALSE,
                       result |-> "ValueError"]
            /\ UNCHANGED nodes
       ELSE /\ IdUsable(nodes, in.label, in.properties.id)
            /\ res' = [op |-> "merge_node", in |-> in, session |-> TRUE, result |-> "ok"]
            /\ nodes' = MergeNodeQuery(nodes, in.label, in.properties)
    /\ UNCHANGED edges
    /\ DBUnchanged

\* the MATCH of both endpoints by label and id
EndpointsMatch(g, in) ==
    HasLabel(g, in.from_label, in.from_id) /\ HasLabel(g, in.to_label, in.to_id)

\* Neo4jWrapper.create_relationship(...)
CreateRelationship(in) ==
    /\ IF ~ValidateRelationship(in.from_label, in.to_label, in.rel_type, in.rel_props)
       THEN /\ res' = [op |-> "create_relationship", in |-> in, session |-> FALSE,
                       result |-> "ValueError"]
            /\ UNCHANGED edges
       ELSE /\ TotalRels(edges) < MaxDBRels
            /\ res' = [op |-> "create_relationship", in |-> in, session |-> TRUE,
                       result |-> "ok"]
            /\ edges' = IF EndpointsMatch(nodes, in)
                        THEN CreateRel(edges, in.from_id, in.rel_type, in.to_id)
                        ELSE edges
    /\ UNCHANGED nodes
    /\ DBUnchanged

\* Neo4jWrapper.merge_relationship(...)
MergeRelationship(in) ==
    /\ IF ~ValidateRelationship(in.from_label, in.to_label, in.rel_type, in.rel_props)
       THEN /\ res' = [op |-> "merge_relationship", in |-> in, session |-> FALSE,
                       result |-> "ValueError"]
            /\ UNCHANGED edges
       ELSE /\ TotalRels(edges) < MaxDBRels
            /\ res' = [op |-> "merge_relationship", in |-> in, session |-> TRUE,
                       result |-> "ok"]
            /\ edges' = IF EndpointsMatch(nodes, in)
                        THEN MergeRel(edges, in.from_id, in.rel_type, in.to_id)
                        ELSE edges
    /\ UNCHANGED nodes
    /\ DBUnchanged

\* Neo4jWrapper.update_node(label, {"id": id}, update_props)
UpdateNode(in) ==
    /\ res' = [op |-> "update_node", in |-> in, session |-> TRUE, result |-> "ok"]
    /\ nodes' = Neo4jUpdateNode(nodes, in.label, in.id, in.update_props)
    /\ UNCHANGED edges
    /\ DBUnchanged

\* Neo4jWrapper.delete_node(label, {"id": id})
DeleteNode(in) ==
    /\ res' = [op |-> "delete_node", in |-> in, session |-> TRUE, result |-> "ok"]
    /\ nodes' = DeleteNodeQuery(nodes, in.label, in.id)
    /\ edges' = DetachRels(nodes, edges, in.label, in.id)
    /\ DBUnchanged

NextDB ==
    \/ \E in \in NodeInputs : CreateNode(in)
    \/ \E in \in NodeInputs : MergeNode(in)
    \/ \E in \in RelInputs : CreateRelationship(in)
    \/ \E in \in RelInputs : MergeRelationship(in)
    \/ \E in \in UpdateInputs : UpdateNode(in)
    \/ \E in \in DeleteInputs : DeleteNode(in)

SpecDB == InitDB /\ [][NextDB]_vars

(***************************************************************************)
(* graph_traversal: traverse_from_seeds                                    *)
(***************************************************************************)
MaxHops == 2
MaxCap == 2
MaxTravEdges == 2

\* the relationships the traversed graphs are built from: a two-cycle, a chain,
\* a three-cycle, a self-loop and parallel relationships
TravEdgeKeys ==
    { <<"a", "KNOWS", "b">>, <<"b", "KNOWS", "a">>, <<"b", "KNOWS", "c">>,
      <<"c", "SAME_AS", "a">>, <<"a", "SAME_AS", "a">>, <<"a", "SAME_AS", "b">> }

RECURSIVE TravEdgeBags(_)
TravEdgeBags(n) ==
    IF n = 0 THEN {EmptyEdges}
    ELSE LET smaller == TravEdgeBags(n - 1) IN
         smaller \cup {CreateRel(e, k[1], k[2], k[3]) : e \in smaller, k \in TravEdgeKeys}

TravGraph ==
    [i \in NodeIds |->
        Some([label |-> IF i = "c" THEN "Message" ELSE "Person",
              props |-> [id |-> i]])]

SeedLists == { <<"a">>, <<"a", "a">>, <<"b", "a">>, <<"z", "c">> }

\* relationship_types / node_types arguments (<<>>: None)
TypeFilters ==
    { [relationship_types |-> <<>>, node_types |-> <<>>],
      [relationship_types |-> <<"KNOWS">>, node_types |-> <<>>],
      [relationship_types |-> <<>>, node_types |-> <<"Person">>] }

SeqToSet(q) == {q[i] : i \in 1..Len(q)}

\* [r:A|B]: no filter, or the relationship has one of the types
RelFilterOk(relationship_types, t) ==
    relationship_types = <<>> \/ t \in SeqToSet(relationship_types)

\* (m:A:B): no filter, or the node carries every label listed
NodeFilterOk(g, node_types, id) ==
    node_types = <<>> \/ \A l \in SeqToSet(node_types) : Label(g, id) = l

\* the relationships of a bag, one element <<source, type, target, n>> each
Rels(e) == UNION {{<<k[1], k[2], k[3], n>> : n \in 1..e[k]} : k \in DOMAIN e}

\* MATCH (n)-[r]->(m) WHERE n.id = $node_id RETURN m, r
OutgoingRows(g, e, node_id, relationship_types, node_types) ==
    {[m |-> r[3], r |-> r] : r \in {x \in Rels(e) :
        /\ x[1] = node_id
        /\ RelFilterOk(relationship_types, x[2])
        /\ NodeFilterOk(g, node_types, x[3])}}

\* MATCH (m)-[r]->(n) WHERE n.id = $node_id RETURN m, r
IncomingRows(g, e, node_id, relationship_types, node_types) ==
    {[m |-> r[1], r |-> r] : r \in {x \in Rels(e) :
        /\ x[3] = node_id
        /\ RelFilterOk(relationship_types, x[2])
        /\ NodeFilterOk(g, node_types, x[1])}}

\* every ordering of a set of rows
RECURSIVE Orderings(_)
Orderings(S) ==
    IF S = {} THEN {<<>>}
    ELSE UNION {{<<x>> \o q : q \in Orderings(S \ {x})} : x \in S}

\* _expand_from_node: UNION removes duplicate rows; LIMIT $limit belongs to the
\* second RETURN, so it bounds the incoming rows only; the rows come in any order
expand_from_node(g, e, node_id, relationship_types, node_types, limit) ==
    LET out == OutgoingRows(g, e, node_id, relationship_types, node_types)
        inc == IncomingRows(g, e, node_id, relationship_types, node_types)
        incs == {S \in SUBSET inc : Cardinality(S) = IF Cardinality(inc) < limit
                                                     THEN Cardinality(inc) ELSE limit}
    IN  UNION {Orderings(out \cup S) : S \in incs}

AlwaysUnvisited(visited, id) == FALSE

\* current_id in visited
IsVisited(visited, id) == id \in visited

ReachedAbove(n, max_nodes_per_hop) == n > max_nodes_per_hop

\* len(nodes) >= max_nodes_per_hop
Reached(n, max_nodes_per_hop) == n >= max_nodes_per_hop

InitTraverse ==
    /\ nodes = TravGraph
    /\ edges \in TravEdgeBags(MaxTravEdges)
    /\ vectors = NoVectors
    /\ node_cache = <<>>
    /\ redis_cache = [k \in {} |-> None]
    /\ now = 0
    /\ calls = 0
    /\ proc = [t \in Threads |-> IdleProc]
    /\ writes = [i \in {} |-> <<>>]
    /\ committed = [k \in {} |-> 0]
    /\ lastCall = [op |-> "none"]
    /\ res = IdleRes
    /\ trav = IdleTrav
    /\ embedding_cache = <<>>
    /\ cold_storage = NoArchive
    /\ pruning = IdlePruning

TravUnchanged ==
    UNCHANGED <<nodes, edges, vectors, node_cache, redis_cache, now, calls, proc,
                writes, committed, lastCall, res, embedding_cache, cold_storage, pruning>>

\* traverse_from_seeds(...): lines 19-26
StartTraverse(t, seed_node_ids, max_hops, max_nodes_per_hop, filters) ==
    /\ trav.call[t].pc = "idle"
    /\ trav' = [self |-> [max_nodes_per_hop |-> max_nodes_per_hop],
                call |-> [trav.call EXCEPT ![t] =
                   [pc |-> "while",
                    visited |-> {}, nodes |-> <<>>, relationships |-> <<>>,
                    seeds |-> seed_node_ids,
                    queue |-> [i \in 1..Len(seed_node_ids) |-> <<seed_node_ids[i], 0>>],
                    max_hops |-> max_hops, max_nodes_per_hop |-> max_nodes_per_hop,
                    relationship_types |-> filters.relationship_types,
                    node_types |-> filters.node_types,
                    results |-> <<>>, hop |-> 0, limit |-> max_nodes_per_hop,
                    expanded |-> <<>>, revisits |-> 0]]]
    /\ TravUnchanged

\* while queue: pop the head; skip it or expand it (lines 28-33)
Pop(t) ==
    LET c == trav.call[t] IN
    /\ c.pc = "while"
    /\ c.queue # <<>>
    /\ LET current_id == Head(c.queue)[1]
           hop == Head(c.queue)[2]
       IN  IF hop > c.max_hops \/ IsVisited(c.visited, current_id)
           THEN trav' = [trav EXCEPT !.call[t].queue = Tail(c.queue),
                                     !.call[t].revisits =
                                         IF hop <= c.max_hops THEN @ + 1 ELSE @]
           ELSE \E results \in expand_from_node(nodes, edges, current_id,
                                   c.relationship_types, c.node_types,
                                   trav.self.max_nodes_per_hop) :
                  trav' = [trav EXCEPT !.call[t].queue = Tail(c.queue),
                                       !.call[t].visited = @ \cup {current_id},
                                       !.call[t].expanded = Append(@, current_id),
                                       !.call[t].hop = hop,
                                       !.call[t].results = results,
                                       !.call[t].limit = trav.self.max_nodes_per_hop,
                                       !.call[t].pc = "for"]
    /\ TravUnchanged

\* for record in results: one record, then the two cap tests (lines 34-45)
Record(t) ==
    LET c == trav.call[t] IN
    /\ c.pc = "for"
    /\ IF c.results = <<>>
       THEN trav' = [trav EXCEPT !.call[t].pc =
                        IF Reached(Len(c.nodes), c.max_nodes_per_hop) THEN "done" ELSE "while"]
       ELSE LET m == Head(c.results).m
                r == Head(c.results).r
                fresh == ~IsVisited(c.visited, m)
                nodes2 == IF fresh THEN Append(c.nodes, m) ELSE c.nodes
                queue2 == IF fresh THEN Append(c.queue, <<m, c.hop + 1>>) ELSE c.queue
            IN  trav' = [trav EXCEPT !.call[t].nodes = nodes2,
                                     !.call[t].queue = queue2,
                                     !.call[t].relationships = Append(@, r),
                                     !.call[t].results = Tail(c.results),
                                     !.call[t].pc =
                                        IF Reached(Len(nodes2), c.max_nodes_per_hop)
                                        THEN "done" ELSE "for"]
    /\ TravUnchanged

\* the queue is empty: return {"nodes": nodes, "relationships": relationships}
Finish(t) ==
    /\ trav.call[t].pc = "while"
    /\ trav.call[t].queue = <<>>
    /\ trav' = [trav EXCEPT !.call[t].pc = "done"]
    /\ TravUnchanged

\* the caller has taken the result; the instance keeps its attribute
ReturnTraverse(t) ==
    /\ trav.call[t].pc = "done"
    /\ trav' = [trav EXCEPT !.call[t] = IdleCall]
    /\ TravUnchanged

TraverseStep(t) == Pop(t) \/ Record(t) \/ Finish(t)

TraverseInputs(t) ==
    \E seeds \in SeedLists, max_hops \in 0..MaxHops, cap \in (1..MaxCap) \cup {DefaultMaxNodesPerHop},
       filters \in TypeFilters :
          StartTraverse(t, seeds, max_hops, cap, filters)

\* one caller
NextTraverse ==
    \/ TraverseInputs("t1")
    \/ TraverseStep("t1")
    \/ ReturnTraverse("t1")

SpecTraverse == InitTraverse /\ [][NextTraverse]_vars

\* the calling thread keeps running its loop
SpecTraverseFair == SpecTraverse /\ WF_vars(TraverseStep("t1"))

\* two callers on the one GraphTraversal instance of the engine, each with its
\* own seed and its own max_nodes_per_hop
SharedInputs(t) ==
    \E cap \in (IF t = "t1" THEN 1..MaxCap ELSE {DefaultMaxNodesPerHop}) :
        StartTraverse(t, IF t = "t1" THEN <<"a">> ELSE <<"c">>, MaxHops, cap,
                      [relationship_types |-> <<>>, node_types |-> <<>>])

NextShared ==
    \E t \in Threads : SharedInputs(t) \/ TraverseStep(t) \/ ReturnTraverse(t)

SpecShared == InitTraverse /\ [][NextShared]_vars

(***************************************************************************)
(* rag_engine: GraphRAGEngine (hybrid_search, retrieve_with_context) and   *)
(* the write paths with their cache invalidation                           *)
(***************************************************************************)
MaxSearchCalls == 2
MaxSearchRels == 3

CollectionName == "muntu_knowledge"
EngineSimilarityThreshold == 70
MaxResults == 10
EmbeddingCacheMaxSize == 5000
EmbeddingCacheTTL == 3600
OperationTTL == 600

SearchIds == {"a", "b", "c", "d"}

\* two persons who know each other, a pending task related to one of them; the
\* id "d" is the uuid the next store_document will draw
SearchGraph ==
    [i \in SearchIds |->
        IF i = "d" THEN None
        ELSE Some([label |-> IF i = "c" THEN "Task" ELSE "Person",
                   props |-> IF i = "a" THEN [id |-> "a", name |-> <<"al">>, title |-> 0]
                             ELSE IF i = "b" THEN [id |-> "b", name |-> <<"bo">>, title |-> 0]
                             ELSE [id |-> "c", status |-> "pending"]])]

SearchEdgeKeys ==
    { <<"a", "KNOWS", "b">>, <<"c", "RELATED_TO", "b">>, <<"d", "SAME_AS", "a">> }

SearchEdges ==
    [k \in SearchEdgeKeys |-> IF k[1] = "d" THEN 0 ELSE 1]

SearchVectors ==
    [k \in {<<CollectionName, "a">>, <<CollectionName, "d">>} |->
        IF k[2] = "a"
        THEN Some([id |-> "a", text |-> <<"al">>,
                   payload |-> [text |-> <<"al">>, node_type |-> "Person"]])
        ELSE None]

QueryTexts == { <<"al">>, <<"zed">> }

NoFilters == [relationship_types |-> <<>>, node_types |-> <<>>]

\* f"hybrid_search:{query_text}:{filters}:{max_hops}" and
\* f"retrieve_with_context:{query_text}:{filters}:{max_hops}"
OpKey(op, query_text, filters, max_hops) == <<op, query_text, filters, max_hops>>

SearchOps == {"hybrid_search", "retrieve_with_context"}

IsOpKey(k) == k[1] \in SearchOps

\* str(hash(text))
text_hash(text) == <<"hash", text>>

\* EmbeddingService.generate_embedding: the model is a black box; the vector is
\* named by the text it encodes
generate_embedding(text) == [encodes |-> text]

\* get_embedding_with_cache
get_embedding_with_cache(cache, text, t) ==
    LET g == LRUGet(cache, text_hash(text), t) IN
    IF ~IsNone(g.value) THEN [cache |-> g.cache, embedding |-> Val(g.value)]
    ELSE [cache |-> LRUSet(g.cache, text_hash(text), generate_embedding(text), t,
                           EmbeddingCacheMaxSize, EmbeddingCacheTTL),
          embedding |-> generate_embedding(text)]

\* the scored points of a collection for a query vector
ScoredPoints(vs, collection_name, query_vector) ==
    {[id |-> Val(vs[k]).id,
      score |-> cosine(query_vector.encodes, Val(vs[k]).text),
      payload |-> Val(vs[k]).payload] :
        k \in {j \in DOMAIN vs : j[1] = collection_name /\ ~IsNone(vs[j])}}

IsSortedByScore(q) == \A i \in 1..(Len(q) - 1) : q[i].score >= q[i + 1].score

\* QdrantWrapper.search_vectors: the best `limit` points, best first
search_vectors(vs, collection_name, query_vector, limit) ==
    LET pts == ScoredPoints(vs, collection_name, query_vector)
        n == IF Cardinality(pts) < limit THEN Cardinality(pts) ELSE limit
    IN  {q \in UNION {Orderings(S) : S \in {T \in SUBSET pts : Cardinality(T) = n}} :
            /\ IsSortedByScore(q)
            /\ \A p \in pts \ SeqToSet(q) : \A i \in 1..Len(q) : q[i].score >= p.score}

\* relevant_results of semantic_search: the results at or above the threshold
RECURSIVE Relevant(_)
Relevant(q) ==
    IF q = <<>> THEN <<>>
    ELSE IF Head(q).score >= EngineSimilarityThreshold
         THEN <<Head(q)>> \o Relevant(Tail(q))
         ELSE Relevant(Tail(q))

\* find_related_tasks: the tasks related to the entity, or extracted from a
\* message that mentions it, whose status passes the filter
find_related_tasks(g, e, entity_id, status_filter) ==
    LET held(k) == k \in DOMAIN e /\ e[k] > 0
        isTask(i) == Exists(g, i) /\ Label(g, i) = "Task"
                     /\ (status_filter = {} \/
                         (Has(Props(g, i), "status") /\ Props(g, i).status \in status_filter))
        related == {i \in DOMAIN g : /\ isTask(i)
                                     /\ \/ held(<<entity_id, "RELATED_TO", i>>)
                                        \/ held(<<i, "RELATED_TO", entity_id>>)}
        extracted == {i \in DOMAIN g :
                        /\ isTask(i)
                        /\ \E msg \in DOMAIN g :
                              /\ Exists(g, msg) /\ Label(g, msg) = "Message"
                              /\ held(<<msg, "MENTIONED_IN", entity_id>>)
                              /\ held(<<i, "EXTRACTED_FROM", msg>>)}
    IN  related \cup extracted

PendingStatuses == {"pending", "in_progress"}

\* task_context of hybrid_search: the nodes of the context that have tasks
TaskContext(g, e, context_nodes) ==
    LET ids == {i \in SeqToSet(context_nodes) :
                   find_related_tasks(g, e, i, PendingStatuses) # {}}
    IN  [i \in ids |-> find_related_tasks(g, e, i, PendingStatuses)]

EmptyResult ==
    [results |-> <<>>,
     context |-> [nodes |-> <<>>, relationships |-> <<>>],
     task_context |-> [i \in {} |-> {}]]

\* the relationships of the context that touch the result
RECURSIVE Connections(_, _, _)
Connections(rels, result_id, node_map) ==
    IF rels = <<>> THEN <<>>
    ELSE LET conn == Head(rels)
             rest == Connections(Tail(rels), result_id, node_map)
         IN  IF conn[1] = result_id \/ conn[3] = result_id
             THEN LET other_id == IF conn[1] = result_id THEN conn[3] ELSE conn[1] IN
                  IF other_id \in node_map
                  THEN <<[node |-> other_id, relationship |-> conn]>> \o rest
                  ELSE rest
             ELSE rest

\* _format_results
format_results(hybrid_results) ==
    LET vector_results == hybrid_results.results
        graph_context == hybrid_results.context
        node_map == SeqToSet(graph_context.nodes)
    IN  [results |-> [i \in 1..Len(vector_results) |->
                        [document |-> vector_results[i],
                         connections |-> Connections(graph_context.relationships,
                                                     vector_results[i].id, node_map)]],
         graph_summary |-> [total_nodes |-> Len(graph_context.nodes),
                            total_relationships |-> Len(graph_context.relationships)]]

InitSearch ==
    /\ nodes = SearchGraph
    /\ edges = SearchEdges
    /\ vectors = SearchVectors
    /\ node_cache = <<>>
    /\ redis_cache = [k \in {} |-> None]
    /\ now = 0
    /\ calls = 0
    /\ proc = [t \in Threads |-> IdleProc]
    /\ writes = [i \in {} |-> <<>>]
    /\ committed = [k \in {} |-> 0]
    /\ lastCall = [op |-> "none"]
    /\ res = IdleRes
    /\ trav = IdleTrav
    /\ embedding_cache = <<>>
    /\ cold_storage = NoArchive
    /\ pruning = IdlePruning

\* what no step of a search or a write path touches
SearchFrame == UNCHANGED <<writes, committed, res, pruning>>

\* the key of the call a thread is running
OwnKey(c) == OpKey(c.op, c.query_text, "None", c.max_hops)
HybridKey(c) == OpKey("hybrid_search", c.query_text, "None", c.max_hops)

\* hybrid_search has its result: it returns it to its caller
HybridReturns(c, result, src) ==
    IF c.op = "hybrid_search"
    THEN [c EXCEPT !.pc = "done", !.ret = Some(result), !.src = src, !.outcome = "ok"]
    ELSE [c EXCEPT !.pc = "rc_format", !.hybrid = Some(result)]

\* an exception that is caught and replaced by an empty result
PropagateSwallowed(c, at) ==
    [c EXCEPT !.pc = "hs_set_cache", !.failed_at = at, !.hybrid = Some(EmptyResult)]

\* an exception of a callee: no handler in semantic_search, hybrid_search or
\* retrieve_with_context, so the call ends with it
Propagate(c, at) ==
    [c EXCEPT !.pc = "done", !.ret = None, !.src = "none", !.outcome = "error",
              !.failed_at = at]

\* a thread calls hybrid_search or retrieve_with_context (filters = None)
StartSearch(t, op, query_text, max_hops) ==
    /\ proc[t].pc = "idle"
    /\ trav.call[t].pc = "idle"
    /\ calls < MaxSearchCalls
    /\ calls' = calls + 1
    /\ proc' = [proc EXCEPT ![t] =
                  [op |-> op,
                   pc |-> IF op = "hybrid_search" THEN "hs_get_cache" ELSE "rc_get_cache",
                   query_text |-> query_text, max_hops |-> max_hops,
                   embedding |-> None, vector_results |-> <<>>, hybrid |-> None,
                   ret |-> None, src |-> "none", outcome |-> "running",
                   failed_at |-> "none", wrote |-> FALSE, held |-> FALSE,
                   hit |-> FALSE]]
    /\ UNCHANGED <<nodes, edges, vectors, node_cache, redis_cache, now, lastCall, trav,
                   embedding_cache, cold_storage>>
    /\ SearchFrame

\* RedisCache.get: an error of the server is swallowed and None is returned
RedisGetOrNone(r, key, t, ok) == IF ok THEN RedisGet(r, key, t) ELSE None

\* retrieve_with_context: cached_result = get_operation_cache(op_key)
RCGetCache(t) ==
    /\ proc[t].pc = "rc_get_cache"
    /\ \E ok \in BOOLEAN :
          LET cached == RedisGetOrNone(redis_cache, OwnKey(proc[t]), now, ok) IN
          proc' = [proc EXCEPT ![t] =
                     IF ~IsNone(cached)
                     THEN [@ EXCEPT !.pc = "done", !.ret = cached, !.src = "cache",
                                    !.outcome = "ok", !.hit = TRUE]
                     ELSE [@ EXCEPT !.pc = "hs_get_cache"]]
    /\ UNCHANGED <<nodes, edges, vectors, node_cache, redis_cache, now, calls, lastCall,
                   trav, embedding_cache, cold_storage>>
    /\ SearchFrame

\* hybrid_search: cached_result = get_operation_cache(op_key)
HSGetCache(t) ==
    /\ proc[t].pc = "hs_get_cache"
    /\ \E ok \in BOOLEAN :
          LET cached == RedisGetOrNone(redis_cache, HybridKey(proc[t]), now, ok)
              c == [proc[t] EXCEPT !.held = RedisHolds(redis_cache, HybridKey(proc[t]), now)]
          IN  proc' = [proc EXCEPT ![t] =
                         IF ~IsNone(cached)
                         THEN HybridReturns([c EXCEPT !.hit = TRUE], Val(cached), "cache")
                         ELSE [c EXCEPT !.pc = "hs_embedding"]]
    /\ UNCHANGED <<nodes, edges, vectors, node_cache, redis_cache, now, calls, lastCall,
                   trav, embedding_cache, cold_storage>>
    /\ SearchFrame

\* semantic_search: query_embedding = get_embedding_with_cache(query_text, ...)
HSEmbedding(t) ==
    /\ proc[t].pc = "hs_embedding"
    /\ LET g == get_embedding_with_cache(embedding_cache, proc[t].query_text, now) IN
          /\ embedding_cache' = g.cache
          /\ proc' = [proc EXCEPT ![t].pc = "hs_search", ![t].embedding = Some(g.embedding)]
    /\ UNCHANGED <<nodes, edges, vectors, node_cache, redis_cache, now, calls, lastCall,
                   trav, cold_storage>>
    /\ SearchFrame

\* semantic_search: the vector search and the threshold; hybrid_search: the seeds,
\* and the empty result when there are none
HSSearch(t) ==
    /\ proc[t].pc = "hs_search"
    /\ \E found \in search_vectors(vectors, CollectionName, Val(proc[t].embedding),
                                   MaxResults) :
          LET vector_results == Relevant(found) IN
          proc' = [proc EXCEPT ![t] =
                     IF vector_results = <<>>
                     THEN [@ EXCEPT !.pc = "hs_set_cache", !.hybrid = Some(EmptyResult)]
                     ELSE [@ EXCEPT !.pc = "hs_traverse",
                                    !.vector_results = vector_results]]
    /\ UNCHANGED <<nodes, edges, vectors, node_cache, redis_cache, now, calls, lastCall,
                   trav, embedding_cache, cold_storage>>
    /\ SearchFrame

\* hybrid_search: graph_context = traverse_from_seeds(seed_node_ids, max_hops)
HSTraverse(t) ==
    /\ proc[t].pc = "hs_traverse"
    /\ StartTraverse(t, [i \in 1..Len(proc[t].vector_results) |-> proc[t].vector_results[i].id],
                     proc[t].max_hops, DefaultMaxNodesPerHop, NoFilters)

\* the traversal runs inside the call
HSTraverseStep(t) ==
    /\ proc[t].pc = "hs_traverse"
    /\ TraverseStep(t)

\* hybrid_search: the task lookup for every node of the context, and the result
HSTasks(t) ==
    /\ proc[t].pc = "hs_traverse"
    /\ trav.call[t].pc = "done"
    /\ LET context == [nodes |-> trav.call[t].nodes,
                       relationships |-> trav.call[t].relationships]
       IN  proc' = [proc EXCEPT ![t].pc = "hs_set_cache",
                                ![t].hybrid =
                                    Some([results |-> proc[t].vector_results,
                                          context |-> context,
                                          task_context |->
                                              TaskContext(nodes, edges, context.nodes)])]
    /\ trav' = [trav EXCEPT !.call[t] = IdleCall]
    /\ UNCHANGED <<nodes, edges, vectors, node_cache, redis_cache, now, calls, lastCall,
                   embedding_cache, cold_storage>>
    /\ SearchFrame

\* hybrid_search: set_operation_cache(op_key, result, ttl=600); return result
HSSetCache(t) ==
    /\ proc[t].pc = "hs_set_cache"
    /\ redis_cache' = RedisSet(redis_cache, HybridKey(proc[t]), Val(proc[t].hybrid), now,
                               OperationTTL)
    /\ proc' = [proc EXCEPT ![t] =
                  HybridReturns([@ EXCEPT !.wrote = TRUE], Val(proc[t].hybrid), "computed")]
    /\ UNCHANGED <<nodes, edges, vectors, node_cache, now, calls, lastCall, trav,
                   embedding_cache, cold_storage>>
    /\ SearchFrame

\* retrieve_with_context: _format_results, set_operation_cache, return
RCFormat(t) ==
    /\ proc[t].pc = "rc_format"
    /\ LET formatted_results == format_results(Val(proc[t].hybrid)) IN
          /\ redis_cache' = RedisSet(redis_cache, OwnKey(proc[t]), formatted_results, now,
                                     OperationTTL)
          /\ proc' = [proc EXCEPT ![t].pc = "done", ![t].ret = Some(formatted_results),
                                  ![t].src = "computed", ![t].outcome = "ok"]
    /\ UNCHANGED <<nodes, edges, vectors, node_cache, now, calls, lastCall, trav,
                   embedding_cache, cold_storage>>
    /\ SearchFrame

\* the place where a call to a service can raise: the embedding model (on a miss of
\* the embedding cache), the vector store, a graph query of the traversal or of the
\* task lookup, the cache server on set
FailurePoint(t) ==
    LET c == proc[t] IN
    IF c.pc = "hs_embedding"
    THEN IF IsNone(LRUGet(embedding_cache, text_hash(c.query_text), now).value)
         THEN "embedding" ELSE "none"
    ELSE IF c.pc = "hs_search" THEN "vector_search"
    ELSE IF c.pc = "hs_traverse"
         THEN IF trav.call[t].pc = "while" /\ trav.call[t].queue # <<>>
                 /\ Head(trav.call[t].queue)[2] <= trav.call[t].max_hops
                 /\ ~IsVisited(trav.call[t].visited, Head(trav.call[t].queue)[1])
              THEN "traversal"
              ELSE IF trav.call[t].pc = "done" /\ trav.call[t].nodes # <<>>
                   THEN "task_lookup" ELSE "none"
    ELSE IF c.pc \in {"hs_set_cache", "rc_format"} THEN "cache_set"
    ELSE "none"

\* a service raises
HSFail(t) ==
    /\ FailurePoint(t) # "none"
    /\ proc' = [proc EXCEPT ![t] = Propagate(@, FailurePoint(t))]
    /\ trav' = [trav EXCEPT !.call[t] = IdleCall]
    /\ UNCHANGED <<nodes, edges, vectors, node_cache, redis_cache, now, calls, lastCall,
                   embedding_cache, cold_storage>>
    /\ SearchFrame

\* the call returns to its caller
ReturnSearch(t) ==
    /\ proc[t].pc = "done"
    /\ proc[t].op \in SearchOps
    /\ lastCall' = [op |-> proc[t].op, key |-> OwnKey(proc[t]), src |-> proc[t].src,
                    outcome |-> proc[t].outcome, failed_at |-> proc[t].failed_at,
                    held |-> proc[t].held, hit |-> proc[t].hit, ret |-> proc[t].ret]
    /\ proc' = [proc EXCEPT ![t] = IdleProc]
    /\ UNCHANGED <<nodes, edges, vectors, node_cache, redis_cache, now, calls, trav,
                   embedding_cache, cold_storage>>
    /\ SearchFrame

\* get_node_with_cache run to its return: the caches and the graph it leaves, and
\* the node it returns
GetNodeWithCache(nc, rc, g, node_id, node_type, t) ==
    LET cache_key == CacheKey(node_type, node_id)
        l == LRUGet(nc, cache_key, t)
        r == RedisGet(rc, cache_key, t)
        node_data == get_node(g, node_type, node_id)
    IN  IF ~IsNone(l.value)
        THEN [node_cache |-> l.cache, redis_cache |-> rc,
              nodes |-> update_node_access_timestamp(g, node_id, t), ret |-> l.value]
        ELSE IF ~IsNone(r)
        THEN [node_cache |-> LRUSet(l.cache, cache_key, Val(r), t,
                                    NodeCacheMaxSize, NodeCacheTTL),
              redis_cache |-> rc,
              nodes |-> update_node_access_timestamp(g, node_id, t), ret |-> r]
        ELSE IF ~IsNone(node_data)
        THEN [node_cache |-> LRUSet(l.cache, cache_key, Val(node_data), t,
                                    NodeCacheMaxSize, NodeCacheTTL),
              redis_cache |-> RedisSet(rc, cache_key, Val(node_data), t, RedisNodeTTL),
              nodes |-> update_node_access_timestamp(g, node_id, t), ret |-> node_data]
        ELSE [node_cache |-> l.cache, redis_cache |-> rc, nodes |-> g, ret |-> None]

\* invalidate_node_cache on both caches
InvalidateNode(s, node_id, node_type) ==
    [s EXCEPT !.node_cache = LRUDelete(@, CacheKey(node_type, node_id)),
              !.redis_cache = RedisDelete(@, CacheKey(node_type, node_id))]

\* store_in_cold_storage: the file {node_id}.pkl.gz is written, or overwritten
ArchiveReference(node_data) == <<"cold_storage", node_data.id>>

store_in_cold_storage(cs, node_data) ==
    [k \in (DOMAIN cs) \cup {ArchiveReference(node_data)} |->
        IF k = ArchiveReference(node_data) THEN Some(node_data) ELSE cs[k]]

\* the SET clauses of archive_nodes
ArchiveProps(entity_type, archive_reference, t) ==
    IF entity_type = "Message"
    THEN [k \in {"status", "archived_at", "archive_reference", "content",
                 "has_archived_content"} |->
            IF k = "status" THEN "archived"
            ELSE IF k = "archived_at" THEN t
            ELSE IF k = "archive_reference" THEN archive_reference
            ELSE IF k = "content" THEN <<>>
            ELSE TRUE]
    ELSE [k \in {"status", "archived_at", "archive_reference"} |->
            IF k = "status" THEN "archived"
            ELSE IF k = "archived_at" THEN t
            ELSE archive_reference]

\* archive_nodes: the body of the loop for one node of the batch
ArchiveOne(s, node_id, entity_type, t) ==
    LET g == GetNodeWithCache(s.node_cache, s.redis_cache, s.nodes, node_id, entity_type, t)
        s1 == [s EXCEPT !.node_cache = g.node_cache, !.redis_cache = g.redis_cache,
                        !.nodes = g.nodes]
    IN  IF IsNone(g.ret) THEN s1
        ELSE InvalidateNode(
                [s1 EXCEPT !.cold_storage = store_in_cold_storage(@, Val(g.ret)),
                           !.nodes = update_node(@, node_id,
                                        ArchiveProps(entity_type,
                                                     ArchiveReference(Val(g.ret)), t))],
                node_id, entity_type)

\* archive_nodes: for node_id in node_batch
RECURSIVE ArchiveBatch(_, _, _, _)
ArchiveBatch(s, node_batch, entity_type, t) ==
    IF node_batch = <<>> THEN s
    ELSE ArchiveBatch(ArchiveOne(s, Head(node_batch), entity_type, t),
                      Tail(node_batch), entity_type, t)

\* the property sets handed to update_node_with_cache
SearchUpdateProps ==
    { [k \in {"title"} |-> 1],
      [k \in {"title", "relationships"} |-> 1] }

ArchiveBatches == { <<"b">>, <<"z", "a">> }

WriteOps == {"update_node_with_cache", "create_relationship_with_cache",
             "archive_nodes", "store_document"}

\* a write call has run and returned
WriteReturns(t, op) ==
    /\ proc[t].pc = "idle"
    /\ calls < MaxSearchCalls
    /\ calls' = calls + 1
    /\ lastCall' = [op |-> op]
    /\ UNCHANGED <<now, proc, trav>>
    /\ SearchFrame

\* update_node_with_cache(node_id, node_type, properties, graph_db)
UpdateNodeWithCache(t, node_id, node_type, properties) ==
    /\ WriteReturns(t, "update_node_with_cache")
    /\ nodes' = update_node(nodes, node_id, properties)
    /\ node_cache' = LRUDelete(node_cache, CacheKey(node_type, node_id))
    /\ redis_cache' = IF Has(properties, "relationships")
                      THEN RedisFlush(RedisDelete(redis_cache, CacheKey(node_type, node_id)))
                      ELSE RedisDelete(redis_cache, CacheKey(node_type, node_id))
    /\ UNCHANGED <<edges, vectors, embedding_cache, cold_storage>>

\* create_relationship_with_cache(source_id, source_type, target_id, target_type,
\* rel_type, properties, graph_db)
CreateRelationshipWithCache(t, source_id, source_type, target_id, target_type, rel_type) ==
    /\ WriteReturns(t, "create_relationship_with_cache")
    /\ TotalRels(edges) < MaxSearchRels
    /\ edges' = CreateRel(edges, source_id, rel_type, target_id)
    /\ node_cache' = LRUDelete(LRUDelete(node_cache, CacheKey(source_type, source_id)),
                               CacheKey(target_type, target_id))
    /\ redis_cache' = RedisFlush(RedisFlush(
                         RedisDelete(RedisDelete(redis_cache,
                                                 CacheKey(source_type, source_id)),
                                     CacheKey(target_type, target_id))))
    /\ UNCHANGED <<nodes, vectors, embedding_cache, cold_storage>>

\* archive_nodes(node_batch, entity_type, graph_db)
ArchiveNodes(t, node_batch, entity_type) ==
    /\ WriteReturns(t, "archive_nodes")
    /\ LET s == ArchiveBatch([nodes |-> nodes, node_cache |-> node_cache,
                              redis_cache |-> redis_cache, cold_storage |-> cold_storage],
                             node_batch, entity_type, now)
       IN  /\ nodes' = s.nodes
           /\ node_cache' = s.node_cache
           /\ redis_cache' = s.redis_cache
           /\ cold_storage' = s.cold_storage
    /\ UNCHANGED <<edges, vectors, embedding_cache>>

\* VectorDB.upsert_embedding
upsert_embedding(vs, collection, id, text, payload) ==
    [k \in (DOMAIN vs) \cup {<<collection, id>>} |->
        IF k = <<collection, id>>
        THEN Some([id |-> id, text |-> text, payload |-> payload])
        ELSE vs[k]]

\* store_document: one create_relationship per entry of relationships
RECURSIVE StoreRels(_, _, _, _)
StoreRels(g, e, doc_id, relationships) ==
    IF relationships = <<>> THEN e
    ELSE LET rel == Head(relationships)
             e1 == IF HasLabel(g, "Person", doc_id)
                      /\ HasLabel(g, rel.target_type, rel.target_id)
                   THEN CreateRel(e, doc_id, rel.rel_type, rel.target_id)
                   ELSE e
         IN  StoreRels(g, e1, doc_id, Tail(relationships))

\* store_document(text, metadata, "Person", relationships): the uuid drawn is doc_id
StoreDocument(t, doc_id, text, metadata, relationships) ==
    /\ WriteReturns(t, "store_document")
    /\ ~Exists(nodes, doc_id)
    /\ LET properties == SetProps([k \in {"id"} |-> doc_id], metadata)
           e == get_embedding_with_cache(embedding_cache,
                    IF text # <<>> THEN text ELSE Coalesce(metadata, "name", <<>>), now)
       IN  /\ ValidateNode("Person", properties)
           /\ \A i \in 1..Len(relationships) :
                 ValidateRelationship("Person", relationships[i].target_type,
                                      relationships[i].rel_type, NoProps)
           /\ nodes' = CreateNodeQuery(nodes, "Person", properties)
           /\ edges' = StoreRels(CreateNodeQuery(nodes, "Person", properties), edges, doc_id, relationships)
           /\ embedding_cache' = e.cache
           /\ vectors' = upsert_embedding(vectors, CollectionName, doc_id,
                            e.embedding.encodes,
                            SetProps([k \in {"text", "node_type"} |->
                                         IF k = "text" THEN text ELSE "Person"], metadata))
    /\ UNCHANGED <<node_cache, redis_cache, cold_storage>>

\* time passes: the operation results cached so far expire
SearchTick(t) ==
    /\ proc[t].pc = "idle"
    /\ now + NodeCacheTTL <= MaxTime
    /\ now' = now + NodeCacheTTL
    /\ UNCHANGED <<nodes, edges, vectors, node_cache, redis_cache, calls, proc, lastCall,
                   trav, embedding_cache, cold_storage>>
    /\ SearchFrame

SearchStep(t) ==
    \/ RCGetCache(t) \/ HSGetCache(t) \/ HSEmbedding(t) \/ HSSearch(t)
    \/ HSTraverse(t) \/ HSTraverseStep(t) \/ HSTasks(t) \/ HSSetCache(t)
    \/ RCFormat(t) \/ HSFail(t) \/ ReturnSearch(t)

SearchCalls(t) ==
    \/ \E op \in SearchOps, q \in QueryTexts, max_hops \in {0, 1} :
          StartSearch(t, op, q, max_hops)
    \/ \E properties \in SearchUpdateProps :
          UpdateNodeWithCache(t, "a", "Person", properties)
    \/ CreateRelationshipWithCache(t, "a", "Person", "b", "Person", "KNOWS")
    \/ \E node_batch \in ArchiveBatches : ArchiveNodes(t, node_batch, "Person")
    \/ StoreDocument(t, "d", <<"al">>, [k \in {"name"} |-> <<"dee">>],
                     <<[target_type |-> "Person", target_id |-> "a",
                        rel_type |-> "SAME_AS"]>>)

\* one client
NextSearch ==
    \/ SearchCalls("t1")
    \/ SearchStep("t1")
    \/ SearchTick("t1")

SpecSearch == InitSearch /\ [][NextSearch]_vars

(***************************************************************************)
(* Cached reads between merges and deletes: one client calls                *)
(* get_node_with_cache, merge_entities and Neo4jWrapper.delete_node         *)
(***************************************************************************)
MaxStaleCalls == 3

\* get_node_with_cache(node_id, node_type, graph_db), from call to return
GetNode(node_id, node_type) ==
    LET g == GetNodeWithCache(node_cache, redis_cache, nodes, node_id, node_type, now) IN
    /\ calls < MaxStaleCalls
    /\ calls' = calls + 1
    /\ nodes' = g.nodes
    /\ node_cache' = g.node_cache
    /\ redis_cache' = g.redis_cache
    /\ res' = [op |-> "get_node_with_cache", node_id |-> node_id,
               node_type |-> node_type, ret |-> g.ret]
    /\ UNCHANGED <<edges, vectors, now, proc, writes, committed, lastCall, trav,
                   embedding_cache, cold_storage, pruning>>

NextStale ==
    \/ \E node_id \in {"a", "b"} : GetNode(node_id, "Person")
    \/ \E in \in TransferInputs : MergeEntities(MaxStaleCalls, in)
    \/ \E in \in DeleteInputs : DeleteNode(in)

SpecStale == InitER({EmptyEdges, SharedEdges}) /\ [][NextStale]_vars

(***************************************************************************)
(* rag_engine: archive_nodes and get_node_with_archive_support on a        *)
(* Message and a Person; an absent or NULL content is the empty text       *)
(***************************************************************************)
MaxArchiveCalls == 4

MessageContent == <<"hello">>

ArchiveGraph ==
    [i \in {"a", "b"} |->
        Some(IF i = "a"
             THEN [label |-> "Message", props |-> [id |-> "a", content |-> MessageContent]]
             ELSE [label |-> "Person", props |-> [id |-> "b", name |-> <<"bea">>]])]

InitArchive ==
    /\ nodes = ArchiveGraph
    /\ edges = NoEdges
    /\ vectors = NoVectors
    /\ node_cache = <<>>
    /\ redis_cache = [k \in {} |-> None]
    /\ now = 0
    /\ calls = 0
    /\ proc = [t \in Threads |-> IdleProc]
    /\ writes = [i \in {} |-> <<>>]
    /\ committed = [k \in {} |-> 0]
    /\ lastCall = [op |-> "none"]
    /\ res = IdleRes
    /\ trav = IdleTrav
    /\ embedding_cache = <<>>
    /\ cold_storage = NoArchive
    /\ pruning = IdlePruning

ArchiveUnchanged ==
    UNCHANGED <<edges, vectors, proc, writes, committed, lastCall, trav,
                embedding_cache, pruning>>

\* retrieve_from_cold_storage: the unpickled node data of the file
retrieve_from_cold_storage(cs, archive_reference) == Val(cs[archive_reference])

\* archived_content.get('content')
ContentOf(node_data) == IF Has(node_data, "content") THEN node_data.content ELSE <<>>

\* node['content'] = ...: the dictionary returned by get_node_with_cache is the
\* one object held by the in-process cache, at the end of its order after the
\* get or set of the lookup
AssignCached(cache, cache_key, node) ==
    IF cache # <<>> /\ cache[Len(cache)].key = cache_key
    THEN [cache EXCEPT ![Len(cache)].value = node] ELSE cache

\* get_node_with_archive_support
get_node_with_archive_support(s, node_id, node_type, t) ==
    LET g == GetNodeWithCache(s.node_cache, s.redis_cache, s.nodes, node_id, node_type, t)
        s1 == [s EXCEPT !.node_cache = g.node_cache, !.redis_cache = g.redis_cache,
                        !.nodes = g.nodes]
    IN  IF IsNone(g.ret) THEN [s |-> s1, ret |-> None]
        ELSE LET node == Val(g.ret) IN
             IF ~(Has(node, "has_archived_content") /\ node.has_archived_content)
             THEN [s |-> s1, ret |-> g.ret]
             ELSE LET filled ==
                          IF Has(node, "archive_reference")
                          THEN SetProps(node, [k \in {"content"} |->
                                   ContentOf(retrieve_from_cold_storage(
                                                 s.cold_storage, node.archive_reference))])
                          ELSE node
                  IN  [s |-> [s1 EXCEPT
                                 !.node_cache = AssignCached(@, CacheKey(node_type, node_id),
                                                             filled),
                                 !.nodes = update_node_access_timestamp(@, node_id, t)],
                       ret |-> Some(filled)]

ArchiveState ==
    [nodes |-> nodes, node_cache |-> node_cache, redis_cache |-> redis_cache,
     cold_storage |-> cold_storage]

ArchiveCall ==
    /\ calls < MaxArchiveCalls
    /\ calls' = calls + 1
    /\ UNCHANGED now
    /\ ArchiveUnchanged

\* archive_nodes(node_batch, entity_type, graph_db)
CallArchiveNodes(node_batch, entity_type) ==
    LET s == ArchiveBatch(ArchiveState, node_batch, entity_type, now) IN
    /\ ArchiveCall
    /\ nodes' = s.nodes
    /\ node_cache' = s.node_cache
    /\ redis_cache' = s.redis_cache
    /\ cold_storage' = s.cold_storage
    /\ res' = [op |-> "archive_nodes", node_batch |-> node_batch,
               entity_type |-> entity_type]

\* get_node_with_archive_support(node_id, node_type, graph_db)
CallGetNodeWithArchiveSupport(node_id, node_type) ==
    LET r == get_node_with_archive_support(ArchiveState, node_id, node_type, now) IN
    /\ ArchiveCall
    /\ nodes' = r.s.nodes
    /\ node_cache' = r.s.node_cache
    /\ redis_cache' = r.s.redis_cache
    /\ cold_storage' = r.s.cold_storage
    /\ res' = [op |-> "get_node_with_archive_support", node_id |-> node_id,
               node_type |-> node_type, ret |-> r.ret]

\* time passes: the entries of the in-process cache expire
ArchiveTick ==
    /\ now + NodeCacheTTL <= MaxTime
    /\ now' = now + NodeCacheTTL
    /\ UNCHANGED <<nodes, node_cache, redis_cache, cold_storage, calls, res>>
    /\ ArchiveUnchanged

NextArchive ==
    \/ \E node_batch \in {<<"a">>, <<"a", "a">>} : CallArchiveNodes(node_batch, "Message")
    \/ CallArchiveNodes(<<"b">>, "Person")
    \/ \E node_id \in {"a", "b"} :
          CallGetNodeWithArchiveSupport(node_id, Label(nodes, node_id))
    \/ ArchiveTick

SpecArchive == InitArchive /\ [][NextArchive]_vars

(***************************************************************************)
(* LRUCache on its own: one instance, any sequence of set, get, delete and *)
(* clear; committed[key] is the number of the call that last inserted key  *)
(***************************************************************************)
MaxLRUCalls == 5

LRUKeys == {"a", "b", "c", "d"}

\* the keys an LRUCache holds, expired or not
KeysOf(cache) == {cache[i].key : i \in 1..Len(cache)}

\* LRUCache.clear
LRUClear(cache) == <<>>

InitLRU ==
    /\ nodes = [i \in {} |-> None]
    /\ edges = NoEdges
    /\ vectors = NoVectors
    /\ node_cache = <<>>
    /\ redis_cache = [k \in {} |-> None]
    /\ now = 0
    /\ calls = 0
    /\ proc = [t \in Threads |-> IdleProc]
    /\ writes = [i \in {} |-> <<>>]
    /\ committed = [k \in LRUKeys |-> 0]
    /\ lastCall = [op |-> "none"]
    /\ res = IdleRes
    /\ trav = IdleTrav
    /\ embedding_cache = <<>>
    /\ cold_storage = NoArchive
    /\ pruning = IdlePruning

LRUUnchanged ==
    UNCHANGED <<nodes, edges, vectors, redis_cache, proc, writes, lastCall, trav,
                embedding_cache, cold_storage, pruning>>

\* a call of a method of the cache
LRUCall ==
    /\ calls < MaxLRUCalls
    /\ calls' = calls + 1
    /\ UNCHANGED now
    /\ LRUUnchanged

\* cache.set(key, value)
CallSet(key, value) ==
    /\ LRUCall
    /\ node_cache' = LRUSet(node_cache, key, value, now, NodeCacheMaxSize, NodeCacheTTL)
    /\ committed' = [committed EXCEPT ![key] = calls + 1]
    /\ res' = [op |-> "set", key |-> key, before |-> KeysOf(node_cache),
               evicted |-> KeysOf(node_cache) \ KeysOf(node_cache'),
               stamp |-> committed]

\* cache.get(key)
CallGet(key) ==
    /\ LRUCall
    /\ node_cache' = LRUGet(node_cache, key, now).cache
    /\ res' = [op |-> "get", key |-> key, value |-> LRUGet(node_cache, key, now).value]
    /\ UNCHANGED committed

\* cache.delete(key)
CallDelete(key) ==
    /\ LRUCall
    /\ node_cache' = LRUDelete(node_cache, key)
    /\ res' = [op |-> "delete", key |-> key]
    /\ UNCHANGED committed

\* cache.clear()
CallClear ==
    /\ LRUCall
    /\ node_cache' = LRUClear(node_cache)
    /\ res' = [op |-> "clear"]
    /\ UNCHANGED committed

\* time passes: the entries set so far expire
LRUTick ==
    /\ now + NodeCacheTTL <= MaxTime
    /\ now' = now + NodeCacheTTL
    /\ UNCHANGED <<node_cache, calls, committed, res>>
    /\ LRUUnchanged

NextLRU ==
    \/ \E key \in LRUKeys : CallSet(key, 1)
    \/ \E key \in LRUKeys : CallGet(key)
    \/ \E key \in LRUKeys : CallDelete(key)
    \/ CallClear
    \/ LRUTick

SpecLRU == InitLRU /\ [][NextLRU]_vars

(***************************************************************************)
(* LRUCache called from several threads: each method is the sequence of    *)
(* its dictionary operations, run between taking and releasing self.lock;  *)
(* committed[key] is the entry of the newest completed set of the key that *)
(* no completed call has deleted, evicted or found expired                 *)
(***************************************************************************)
MaxLockCalls == 4

\* three keys for a cache of two entries; a is set to either of two values
LockKeys == {"a", "b", "c"}
LockValues == {1, 2}

LockIdle ==
    [pc |-> "idle", holds |-> FALSE, op |-> "none", key |-> "a", value |-> 0,
     popped |-> None, removed |-> {}, expected |-> None, ret |-> None, raised |-> FALSE]

InitLock ==
    /\ nodes = [i \in {} |-> None]
    /\ edges = NoEdges
    /\ vectors = NoVectors
    /\ node_cache = <<>>
    /\ redis_cache = [k \in {} |-> None]
    /\ now = 0
    /\ calls = 0
    /\ proc = [t \in Threads |-> LockIdle]
    /\ writes = [i \in {} |-> <<>>]
    /\ committed = [k \in LockKeys |-> None]
    /\ lastCall = [op |-> "none"]
    /\ res = IdleRes
    /\ trav = IdleTrav
    /\ embedding_cache = <<>>
    /\ cold_storage = NoArchive
    /\ pruning = IdlePruning

LockUnchanged ==
    UNCHANGED <<nodes, edges, vectors, redis_cache, writes, res, trav,
                embedding_cache, cold_storage, pruning>>

\* a lock that never blocks
LockIgnored(t) == TRUE

\* threading.Lock: free when no thread is inside a with self.lock block
LockFree(t) == \A u \in Threads : ~proc[u].holds

\* self.cache[key] = (value, expire) on an OrderedDict: a key that is present
\* keeps its position, a new key goes to the end
DictAssign(cache, key, value, expire) ==
    LET i == IndexOf(cache, key)
        e == [key |-> key, value |-> value, expire |-> expire]
    IN  IF i # 0 THEN [cache EXCEPT ![i] = e] ELSE Append(cache, e)

\* the entry a get of the key has to return: the committed one, while it lives
Expected(key, t) ==
    IF ~IsNone(committed[key]) /\ Val(committed[key]).expire > t
    THEN Some(Val(committed[key]).value) ELSE None

\* a thread calls get, set, delete or clear
LockCall(t, op, key, value) ==
    /\ proc[t].pc = "idle"
    /\ calls < MaxLockCalls
    /\ calls' = calls + 1
    /\ proc' = [proc EXCEPT ![t] = [LockIdle EXCEPT !.pc = "acquire", !.op = op,
                                                    !.key = key, !.value = value]]
    /\ UNCHANGED <<node_cache, now, committed, lastCall>>
    /\ LockUnchanged

\* with self.lock:
Acquire(t) ==
    /\ proc[t].pc = "acquire"
    /\ LockFree(t)
    /\ proc' = [proc EXCEPT ![t].holds = TRUE, ![t].pc = proc[t].op]
    /\ UNCHANGED <<node_cache, now, calls, committed, lastCall>>
    /\ LockUnchanged

\* the end of the with block: a return or an exception leaving it
Leave(p, ret, raised) == [p EXCEPT !.pc = "release", !.ret = ret, !.raised = raised]

\* get: if key in self.cache
GetTest(t) ==
    /\ proc[t].pc = "get"
    /\ proc' = [proc EXCEPT ![t] = IF LRUHolds(node_cache, proc[t].key)
                                   THEN [@ EXCEPT !.pc = "get_pop"]
                                   ELSE Leave(@, None, FALSE)]
    /\ UNCHANGED <<node_cache, now, calls, committed, lastCall>>
    /\ LockUnchanged

\* get: value, expire = self.cache.pop(key); if expire > time.time()
GetPop(t) ==
    LET i == IndexOf(node_cache, proc[t].key) IN
    /\ proc[t].pc = "get_pop"
    /\ IF i = 0
       THEN /\ proc' = [proc EXCEPT ![t] = Leave(@, None, TRUE)]
            /\ UNCHANGED node_cache
       ELSE /\ node_cache' = RemoveAt(node_cache, i)
            /\ proc' = [proc EXCEPT ![t] =
                  IF node_cache[i].expire > now
                  THEN [@ EXCEPT !.pc = "get_put", !.popped = Some(node_cache[i]),
                                 !.expected = Expected(proc[t].key, now)]
                  ELSE Leave([@ EXCEPT !.removed = {proc[t].key}], None, FALSE)]
    /\ UNCHANGED <<now, calls, committed, lastCall>>
    /\ LockUnchanged

\* get: self.cache[key] = (value, expire); return value
GetPut(t) ==
    LET e == Val(proc[t].popped) IN
    /\ proc[t].pc = "get_put"
    /\ node_cache' = DictAssign(node_cache, e.key, e.value, e.expire)
    /\ proc' = [proc EXCEPT ![t] = Leave(@, Some(e.value), FALSE)]
    /\ UNCHANGED <<now, calls, committed, lastCall>>
    /\ LockUnchanged

\* set: expire = time.time() + self.ttl; if key in self.cache ... elif len(...) >= max_size
SetTest(t) ==
    /\ proc[t].pc = "set"
    /\ proc' = [proc EXCEPT ![t].popped =
                    Some([key |-> proc[t].key, value |-> proc[t].value,
                          expire |-> now + NodeCacheTTL]),
                            ![t].pc =
                    IF LRUHolds(node_cache, proc[t].key) THEN "set_pop"
                    ELSE IF Len(node_cache) >= NodeCacheMaxSize THEN "set_evict"
                    ELSE "set_put"]
    /\ UNCHANGED <<node_cache, now, calls, committed, lastCall>>
    /\ LockUnchanged

\* set: self.cache.pop(key)
SetPop(t) ==
    LET i == IndexOf(node_cache, proc[t].key) IN
    /\ proc[t].pc = "set_pop"
    /\ IF i = 0
       THEN /\ proc' = [proc EXCEPT ![t] = Leave(@, None, TRUE)]
            /\ UNCHANGED node_cache
       ELSE /\ node_cache' = RemoveAt(node_cache, i)
            /\ proc' = [proc EXCEPT ![t].pc = "set_put"]
    /\ UNCHANGED <<now, calls, committed, lastCall>>
    /\ LockUnchanged

\* set: self.cache.popitem(last=False)
SetEvict(t) ==
    /\ proc[t].pc = "set_evict"
    /\ IF node_cache = <<>>
       THEN /\ proc' = [proc EXCEPT ![t] = Leave(@, None, TRUE)]
            /\ UNCHANGED node_cache
       ELSE /\ node_cache' = Tail(node_cache)
            /\ proc' = [proc EXCEPT ![t].pc = "set_put",
                                    ![t].removed = {Head(node_cache).key}]
    /\ UNCHANGED <<now, calls, committed, lastCall>>
    /\ LockUnchanged

\* set: self.cache[key] = (value, expire)
SetPut(t) ==
    LET e == Val(proc[t].popped) IN
    /\ proc[t].pc = "set_put"
    /\ node_cache' = DictAssign(node_cache, e.key, e.value, e.expire)
    /\ proc' = [proc EXCEPT ![t] = Leave(@, None, FALSE)]
    /\ UNCHANGED <<now, calls, committed, lastCall>>
    /\ LockUnchanged

\* delete: if key in self.cache
DeleteTest(t) ==
    /\ proc[t].pc = "delete"
    /\ proc' = [proc EXCEPT ![t] = IF LRUHolds(node_cache, proc[t].key)
                                   THEN [@ EXCEPT !.pc = "delete_pop"]
                                   ELSE Leave(@, None, FALSE)]
    /\ UNCHANGED <<node_cache, now, calls, committed, lastCall>>
    /\ LockUnchanged

\* delete: self.cache.pop(key)
DeletePop(t) ==
    LET i == IndexOf(node_cache, proc[t].key) IN
    /\ proc[t].pc = "delete_pop"
    /\ IF i = 0
       THEN /\ proc' = [proc EXCEPT ![t] = Leave(@, None, TRUE)]
            /\ UNCHANGED node_cache
       ELSE /\ node_cache' = RemoveAt(node_cache, i)
            /\ proc' = [proc EXCEPT ![t] = Leave(@, None, FALSE)]
    /\ UNCHANGED <<now, calls, committed, lastCall>>
    /\ LockUnchanged

\* clear: self.cache.clear()
Clear(t) ==
    /\ proc[t].pc = "clear"
    /\ node_cache' = LRUClear(node_cache)
    /\ proc' = [proc EXCEPT ![t] = Leave(@, None, FALSE)]
    /\ UNCHANGED <<now, calls, committed, lastCall>>
    /\ LockUnchanged

\* the lock is released and the call is complete
Release(t) ==
    LET p == proc[t] IN
    /\ p.pc = "release"
    /\ proc' = [proc EXCEPT ![t] = LockIdle]
    /\ committed' =
          [k \in LockKeys |->
              IF p.raised THEN committed[k]
              ELSE IF p.op = "clear" THEN None
              ELSE IF p.op = "set" /\ k = p.key THEN p.popped
              ELSE IF p.op = "delete" /\ k = p.key THEN None
              ELSE IF k \in p.removed THEN None
              ELSE committed[k]]
    /\ lastCall' = [op |-> p.op, key |-> p.key, thread |-> t, ret |-> p.ret,
                    expected |-> p.expected, raised |-> p.raised]
    /\ UNCHANGED <<node_cache, now, calls>>
    /\ LockUnchanged

\* time passes: the entries set so far expire
LockTick ==
    /\ now + NodeCacheTTL <= MaxTime
    /\ now' = now + NodeCacheTTL
    /\ UNCHANGED <<node_cache, calls, proc, committed, lastCall>>
    /\ LockUnchanged

LockStep(t) ==
    \/ Acquire(t)
    \/ GetTest(t) \/ GetPop(t) \/ GetPut(t)
    \/ SetTest(t) \/ SetPop(t) \/ SetEvict(t) \/ SetPut(t)
    \/ DeleteTest(t) \/ DeletePop(t)
    \/ Clear(t)
    \/ Release(t)

NextLock ==
    \/ \E t \in Threads, key \in LockKeys, value \in LockValues :
          /\ key # "a" => value = 1
          /\ LockCall(t, "set", key, value)
    \/ \E t \in Threads, key \in LockKeys : LockCall(t, "get", key, 0)
    \/ \E t \in Threads, key \in {"a", "b"} : LockCall(t, "delete", key, 0)
    \/ \E t \in Threads : LockCall(t, "clear", "a", 0)
    \/ \E t \in Threads : LockStep(t)
    \/ LockTick

SpecLock == InitLock /\ [][NextLock]_vars

(***************************************************************************)
(* rag_engine: the pruning job and its triggers                             *)
(***************************************************************************)
MaxPruneRuns == 3

\* PRUNING_THRESHOLDS, in the order of the dictionary (<<>>: None)
PruningOrder == <<"Message", "Task", "Person", "Organization", "Event">>

PRUNING_THRESHOLDS ==
    [entity_type \in SeqToSet(PruningOrder) |->
        IF entity_type = "Message" THEN [archive_after |-> <<90>>, remove_after |-> <<365>>]
        ELSE IF entity_type = "Task" THEN [archive_after |-> <<60>>, remove_after |-> <<180>>]
        ELSE IF entity_type = "Person" THEN [archive_after |-> <<180>>, remove_after |-> <<>>]
        ELSE IF entity_type = "Organization"
             THEN [archive_after |-> <<270>>, remove_after |-> <<>>]
        ELSE [archive_after |-> <<60>>, remove_after |-> <<180>>]]

TimerThreads == {"timer1", "timer2"}

InitPrune ==
    /\ nodes = [i \in {} |-> None]
    /\ edges = NoEdges
    /\ vectors = NoVectors
    /\ node_cache = <<>>
    /\ redis_cache = [k \in {} |-> None]
    /\ now = 0
    /\ calls = 0
    /\ proc = [t \in Threads |-> IdleProc]
    /\ writes = [i \in {} |-> <<>>]
    /\ committed = [k \in {} |-> 0]
    /\ lastCall = [op |-> "none"]
    /\ res = IdleRes
    /\ trav = IdleTrav
    /\ embedding_cache = <<>>
    /\ cold_storage = NoArchive
    /\ pruning = IdlePruning

\* the job body is a stub: it computes dates and touches no store
PruneUnchanged ==
    UNCHANGED <<nodes, edges, vectors, node_cache, redis_cache, now, proc, writes,
                committed, lastCall, trav, embedding_cache, cold_storage>>

\* schedule_pruning_job(graph_db): threading.Timer(interval, job).start()
SchedulePruningJob(th) ==
    /\ th \notin pruning.armed
    /\ pruning.runs[th] = 0
    /\ pruning' = [pruning EXCEPT !.armed = @ \cup {th}]
    /\ res' = [op |-> "schedule_pruning_job", thread |-> th]
    /\ UNCHANGED calls
    /\ PruneUnchanged

\* run_pruning_job is entered: now = datetime.now(UTC); nothing is tested first
EnterRun(p, th) == [p EXCEPT !.runs[th] = 1]

\* the timer of a chain fires: job() calls run_pruning_job
TimerFires(th) ==
    /\ th \in pruning.armed
    /\ calls < MaxPruneRuns
    /\ calls' = calls + 1
    /\ pruning' = EnterRun([pruning EXCEPT !.armed = @ \ {th}], th)
    /\ res' = [op |-> "job", thread |-> th]
    /\ PruneUnchanged

\* POST /admin/prune: 403 for a caller who is not an admin, else run_pruning_job
AdminPrune(is_admin) ==
    /\ pruning.runs["http"] = 0
    /\ IF is_admin
       THEN /\ calls < MaxPruneRuns
            /\ calls' = calls + 1
            /\ pruning' = EnterRun(pruning, "http")
            /\ res' = [op |-> "admin_prune", status |-> 202]
       ELSE /\ res' = [op |-> "admin_prune", status |-> 403]
            /\ UNCHANGED <<calls, pruning>>
    /\ PruneUnchanged

\* run_pruning_job: one turn of the loop over PRUNING_THRESHOLDS
PruneEntityType(th) ==
    /\ pruning.runs[th] \in 1..Len(PruningOrder)
    /\ pruning' = [pruning EXCEPT !.runs[th] = @ + 1]
    /\ res' = [op |-> "run_pruning_job", thread |-> th,
               entity_type |-> PruningOrder[pruning.runs[th]],
               removes |-> PRUNING_THRESHOLDS[PruningOrder[pruning.runs[th]]].remove_after # <<>>]
    /\ UNCHANGED calls
    /\ PruneUnchanged

\* job() ending without threading.Timer(...).start()
RunReturnsUnarmed(th) ==
    /\ pruning.runs[th] = Len(PruningOrder) + 1
    /\ pruning' = [pruning EXCEPT !.runs[th] = 0]
    /\ res' = [op |-> "return", thread |-> th]
    /\ UNCHANGED calls
    /\ PruneUnchanged

\* run_pruning_job returns: the timer job arms the next timer, the endpoint answers
RunReturns(th) ==
    /\ pruning.runs[th] = Len(PruningOrder) + 1
    /\ pruning' = [pruning EXCEPT !.runs[th] = 0,
                                  !.armed = IF th \in TimerThreads THEN @ \cup {th} ELSE @]
    /\ res' = [op |-> "return", thread |-> th]
    /\ UNCHANGED calls
    /\ PruneUnchanged

NextPrune ==
    \/ \E th \in TimerThreads : SchedulePruningJob(th)
    \/ \E th \in TimerThreads : TimerFires(th)
    \/ \E is_admin \in BOOLEAN : AdminPrune(is_admin)
    \/ \E th \in PruneThreads : PruneEntityType(th)
    \/ \E th \in PruneThreads : RunReturns(th)

SpecPrune == InitPrune /\ [][NextPrune]_vars

\* a thread that is inside run_pruning_job keeps running: the loop and the
\* statements after it in job() are taken
SpecPruneFair ==
    SpecPrune /\ \A th \in PruneThreads : WF_vars(PruneEntityType(th) \/ RunReturns(th))

(***************************************************************************)
(* entity_resolution: _merge_properties on its own, over entities whose    *)
(* fields are each absent, empty or set                                    *)
(***************************************************************************)
NameChoices == {None, Some(<<>>), Some(<<"al">>), Some(<<"bo">>)}
DateChoices == {None, Some(0), Some(1), Some(2), Some(IsoBase + 1), Some(IsoBase + 3)}
ConfidenceChoices == {None, Some(1), Some(2)}
CountChoices == {None, Some(2)}

\* the entity with the chosen fields
Entity(id, name, created_at, confidence, merged_count) ==
    [k \in {"id"} \cup (IF IsNone(name) THEN {} ELSE {"name"})
                  \cup (IF IsNone(created_at) THEN {} ELSE {"created_at"})
                  \cup (IF IsNone(confidence) THEN {} ELSE {"confidence"})
                  \cup (IF IsNone(merged_count) THEN {} ELSE {"merged_count"}) |->
        IF k = "id" THEN id
        ELSE IF k = "name" THEN Val(name)
        ELSE IF k = "created_at" THEN Val(created_at)
        ELSE IF k = "confidence" THEN Val(confidence)
        ELSE Val(merged_count)]

Entities(id) ==
    {Entity(id, n, d, c, mc) : n \in NameChoices, d \in DateChoices,
                               c \in ConfidenceChoices, mc \in CountChoices}

\* the arguments of the call are drawn at the start
InitMerge ==
    /\ nodes = [i \in {} |-> None]
    /\ edges = NoEdges
    /\ vectors = NoVectors
    /\ node_cache = <<>>
    /\ redis_cache = [k \in {} |-> None]
    /\ now = 0
    /\ calls = 0
    /\ proc = [t \in Threads |-> IdleProc]
    /\ writes = [i \in {} |-> <<>>]
    /\ committed = [k \in {} |-> 0]
    /\ lastCall = [op |-> "none"]
    /\ res \in {[op |-> "arguments", source_entity |-> source_entity,
                  target_entity |-> target_entity, merge_strategy |-> merge_strategy] :
                    source_entity \in Entities("a"), target_entity \in Entities("b"),
                    merge_strategy \in MergeStrategies}
    /\ trav = IdleTrav
    /\ embedding_cache = <<>>
    /\ cold_storage = NoArchive
    /\ pruning = IdlePruning

\* self._merge_properties(source_entity, target_entity, merge_strategy)
MergeProperties ==
    /\ res.op = "arguments"
    /\ res' = [op |-> "merge_properties", source_entity |-> res.source_entity,
               target_entity |-> res.target_entity, merge_strategy |-> res.merge_strategy,
               merged |-> merge_properties(res.source_entity, res.target_entity,
                                           res.merge_strategy)]
    /\ UNCHANGED <<nodes, edges, vectors, node_cache, redis_cache, now, calls, proc,
                   writes, committed, lastCall, trav, embedding_cache, cold_storage,
                   pruning>>

NextMerge == MergeProperties

SpecMerge == InitMerge /\ [][NextMerge]_vars

(***************************************************************************)
(* entity_resolution: batch_resolve_entities and the pairwise score; a     *)
(* score is the fraction num / den of thousandths, a threshold a number of *)
(* thousandths                                                             *)
(***************************************************************************)
MaxBatchLimit == 3

BatchThresholds == {0, 600, 1000}

Weights == [name |-> 600, relationships |-> 300, properties |-> 100]

ImportantProps ==
    {"email", "phone", "title", "role", "company", "website", "address", "description"}

\* MATCH (e)-[r]-(other) WHERE e.id = $entity_id RETURN other.id, as a set
RelatedIds(e, entity_id) ==
    {k[3] : k \in {x \in DOMAIN e : x[1] = entity_id /\ e[x] > 0}}
    \cup {k[1] : k \in {x \in DOMAIN e : x[3] = entity_id /\ e[x] > 0}}

\* _calculate_relationship_overlap: intersection / union, 0.0 when either is empty
calculate_relationship_overlap(e, entity1_id, entity2_id) ==
    LET related_ids1 == RelatedIds(e, entity1_id)
        related_ids2 == RelatedIds(e, entity2_id)
    IN  IF related_ids1 = {} \/ related_ids2 = {} THEN [num |-> 0, den |-> 1]
        ELSE [num |-> Cardinality(related_ids1 \cap related_ids2),
              den |-> Cardinality(related_ids1 \cup related_ids2)]

\* _calculate_property_similarity: matches / total over the important properties
\* that either entity carries
calculate_property_similarity(entity1, entity2) ==
    LET counted == {prop \in ImportantProps : Has(entity1, prop) \/ Has(entity2, prop)}
        matching == {prop \in counted :
                        /\ Has(entity1, prop) /\ Has(entity2, prop)
                        /\ Truthy(prop, entity1[prop]) /\ Truthy(prop, entity2[prop])
                        /\ entity1[prop] = entity2[prop]}
    IN  IF counted = {} THEN [num |-> 0, den |-> 1]
        ELSE [num |-> Cardinality(matching), den |-> Cardinality(counted)]

\* _calculate_entity_similarity: the text field is chosen from entity1 alone
calculate_entity_similarity(e, entity1, entity2) ==
    LET text_field == IF Has(entity1, "name") THEN "name" ELSE "text" IN
    IF ~Has(entity1, text_field) \/ ~Has(entity2, text_field) THEN [num |-> 0, den |-> 1]
    ELSE LET name_similarity == token_sort_ratio(entity1[text_field], entity2[text_field])
             relationship_similarity ==
                 calculate_relationship_overlap(e, entity1.id, entity2.id)
             property_similarity == calculate_property_similarity(entity1, entity2)
             r == relationship_similarity
             p == property_similarity
         IN  [num |-> (Weights.name \div 100) * name_similarity * r.den * p.den
                      + Weights.relationships * r.num * p.den
                      + Weights.properties * p.num * r.den,
              den |-> r.den * p.den]

\* match_score >= match_threshold
ScoreAtLeast(match_score, match_threshold) ==
    match_score.num >= match_threshold * match_score.den

ScoreEq(s1, s2) == s1.num * s2.den = s2.num * s1.den

\* for i, entity1 in enumerate(entities): for j in range(i, len(entities))
RECURSIVE PairIndexesWithSelf(_, _, _)
PairIndexesWithSelf(n, i, j) ==
    IF i > n THEN <<>>
    ELSE IF j > n THEN PairIndexesWithSelf(n, i + 1, i + 1)
    ELSE <<<<i, j>>>> \o PairIndexesWithSelf(n, i, j + 1)

\* for i, entity1 in enumerate(entities): for j in range(i + 1, len(entities))
RECURSIVE PairIndexes(_, _, _)
PairIndexes(n, i, j) ==
    IF i > n THEN <<>>
    ELSE IF j > n THEN PairIndexes(n, i + 1, i + 2)
    ELSE <<<<i, j>>>> \o PairIndexes(n, i, j + 1)

\* the body of the two loops, with processed_pairs and merge_candidates
RECURSIVE BatchLoop(_, _, _, _, _, _, _)
BatchLoop(e, entities, pairs, processed_pairs, merge_candidates, entity_type, match_threshold) ==
    IF pairs = <<>> THEN merge_candidates
    ELSE LET entity1_data == entities[Head(pairs)[1]]
             entity2_data == entities[Head(pairs)[2]]
             pair_key == {entity1_data.id, entity2_data.id}
             match_score == calculate_entity_similarity(e, entity1_data, entity2_data)
         IN  IF pair_key \in processed_pairs
             THEN BatchLoop(e, entities, Tail(pairs), processed_pairs, merge_candidates,
                            entity_type, match_threshold)
             ELSE BatchLoop(e, entities, Tail(pairs), processed_pairs \cup {pair_key},
                            IF ScoreAtLeast(match_score, match_threshold)
                            THEN Append(merge_candidates,
                                        [source_id |-> entity1_data.id,
                                         target_id |-> entity2_data.id,
                                         match_score |-> match_score,
                                         entity_type |-> entity_type])
                            ELSE merge_candidates,
                            entity_type, match_threshold)

\* WHERE NOT exists(e.merged) OR e.merged = false
NotMerged(props) == ~Has(props, "merged") \/ props.merged = FALSE

\* MATCH (e:{entity_type}) WHERE ... RETURN e LIMIT $limit: any limit of the
\* matching nodes, in any order
FetchEntities(g, entity_type, limit) ==
    LET matching == {i \in NodesOfType(g, entity_type) : NotMerged(Props(g, i))}
        n == IF Cardinality(matching) < limit THEN Cardinality(matching) ELSE limit
    IN  UNION {Orderings(S) : S \in {T \in SUBSET matching : Cardinality(T) = n}}

batch_resolve_entities(g, e, ids, entity_type, match_threshold) ==
    LET entities == [k \in 1..Len(ids) |-> Props(g, ids[k])] IN
    BatchLoop(e, entities, PairIndexes(Len(ids), 1, 2), {}, <<>>, entity_type,
              match_threshold)

\* the properties a stored node may carry besides its id
BatchNames == {<<"-">>, <<"al">>, <<"al", "bo">>}
BatchTexts == {<<"-">>, <<"al">>}
BatchEmails == {<<"-">>, <<"e1">>}

BatchEntity(id, name, text, email, merged) ==
    LET keys == {"id"} \cup (IF name = <<"-">> THEN {} ELSE {"name"})
                       \cup (IF text = <<"-">> THEN {} ELSE {"text"})
                       \cup (IF email = <<"-">> THEN {} ELSE {"email"})
                       \cup (IF merged = "-" THEN {} ELSE {"merged"})
    IN  [k \in keys |-> IF k = "id" THEN id
                        ELSE IF k = "name" THEN name
                        ELSE IF k = "text" THEN text
                        ELSE IF k = "email" THEN email
                        ELSE merged = "true"]

BatchEntities(id, emails, merged) ==
    {BatchEntity(id, n, t, m, g) :
        n \in BatchNames, t \in BatchTexts, m \in emails, g \in merged}

\* a and b are Person nodes of any shape, merged or not, c is a Person or an
\* Organization
BatchGraphs ==
    {[i \in NodeIds |->
        Some([label |-> IF i = "c" THEN l ELSE "Person",
              props |-> IF i = "a" THEN pa ELSE IF i = "b" THEN pb
                        ELSE [id |-> "c", name |-> <<"al">>, email |-> <<"e1">>]])] :
        pa \in BatchEntities("a", BatchEmails, {"false", "true"}),
        pb \in BatchEntities("b", {<<"e1">>}, {"-", "true"}),
        l \in {"Person", "Organization"}}

InitBatch ==
    /\ nodes \in BatchGraphs
    /\ edges = SharedEdges
    /\ vectors = NoVectors
    /\ node_cache = <<>>
    /\ redis_cache = [k \in {} |-> None]
    /\ now = 0
    /\ calls = 0
    /\ proc = [t \in Threads |-> IdleProc]
    /\ writes = [i \in {} |-> <<>>]
    /\ committed = [k \in {} |-> 0]
    /\ lastCall = [op |-> "none"]
    /\ res = IdleRes
    /\ trav = IdleTrav
    /\ embedding_cache = <<>>
    /\ cold_storage = NoArchive
    /\ pruning = IdlePruning

\* batch_resolve_entities(entity_type, match_threshold, limit): read queries only
BatchResolveEntities(entity_type, match_threshold, limit) ==
    /\ res = IdleRes
    /\ \E ids \in FetchEntities(nodes, entity_type, limit) :
          res' = [op |-> "batch_resolve_entities", entity_type |-> entity_type,
                  match_threshold |-> match_threshold, limit |-> limit,
                  entities |-> ids,
                  ret |-> batch_resolve_entities(nodes, edges, ids, entity_type,
                                                 match_threshold)]
    /\ UNCHANGED <<nodes, edges, vectors, now, calls>>
    /\ ERUnchanged

NextBatch ==
    \E entity_type \in {"Person", "Organization"}, match_threshold \in BatchThresholds,
       limit \in 0..MaxBatchLimit :
        BatchResolveEntities(entity_type, match_threshold, limit)

SpecBatch == InitBatch /\ [][NextBatch]_vars

(***************************************************************************)
(* Claims on graph traversal                                               *)
(***************************************************************************)
Call == trav.call["t1"]

Running == Call.pc \in {"while", "for"}

Done == Call.pc = "done"

\* how many times id was expanded by the call
TimesExpanded(c, id) == Cardinality({i \in 1..Len(c.expanded) : c.expanded[i] = id})

ExpandedAtMostOnce ==
    (Running \/ Done) => \A id \in NodeIds \cup {"z"} : TimesExpanded(Call, id) <= 1

\* C9: a traversal that has started always returns, whatever cycles, self-loops
\* and parallel relationships the graph has, and it expands no node id twice.
C9_TraversalTerminates ==
    /\ Running ~> Done
    /\ []ExpandedAtMostOnce

\* a call has returned after it met an already expanded node again within the
\* hop limit (the graph has a cycle) and expanded several nodes
C9_Witness ==
    /\ Done
    /\ Call.revisits > 0
    /\ Len(Call.expanded) >= 2
    /\ Len(Call.nodes) < Call.max_nodes_per_hop

\* C10: the node list of a call never holds more than max_nodes_per_hop nodes,
\* and once it holds that many the call has returned: nothing further is popped
\* or expanded, not even the remaining neighbours of the current node.
C10_NodeCap ==
    (Running \/ Done) =>
        /\ Len(Call.nodes) <= Call.max_nodes_per_hop
        /\ Len(Call.nodes) >= Call.max_nodes_per_hop => Done

\* the cap was reached between two neighbours of one node: records of the
\* current expansion and queued nodes are left unprocessed
C10_Witness ==
    /\ Done
    /\ Len(Call.nodes) = Call.max_nodes_per_hop
    /\ Call.results # <<>>
    /\ Call.queue # <<>>

\* the ids one relationship away from id, in either direction, over relationships
\* that pass the two filters (the rows of _expand_from_node without its LIMIT)
Neighbours(g, e, id, relationship_types, node_types) ==
    {row.m : row \in OutgoingRows(g, e, id, relationship_types, node_types)
                     \cup IncomingRows(g, e, id, relationship_types, node_types)}

\* the ids at most k relationships away from one of the ids of S
RECURSIVE Within(_, _, _, _, _, _)
Within(g, e, S, k, relationship_types, node_types) ==
    IF k = 0 THEN S
    ELSE LET W == Within(g, e, S, k - 1, relationship_types, node_types)
         IN  W \cup UNION {Neighbours(g, e, id, relationship_types, node_types) : id \in W}

SeedsOf(c) == {c.seeds[i] : i \in 1..Len(c.seeds)}

NoDuplicates(q) == \A i \in 1..Len(q) : \A j \in 1..Len(q) : q[i] = q[j] => i = j

\* C23: a returned result lists no node id twice in 'nodes' and no relationship
\* twice in 'relationships', whatever the graph and the seeds: only newly seen
\* items are appended.
C23_OutputsHoldNoDuplicates ==
    Done => /\ NoDuplicates(Call.nodes)
            /\ NoDuplicates(Call.relationships)

\* C24: two traversals running at once on the same instance do not interfere:
\* the limit of every expansion of a call is the max_nodes_per_hop that call was
\* given, never the value of the other call.
C24_CallsUseOwnLimit ==
    \A t \in Threads :
        trav.call[t].pc # "idle" => trav.call[t].limit = trav.call[t].max_nodes_per_hop

(***************************************************************************)
(* Claims on the search engine and its write paths                         *)
(***************************************************************************)
Client == proc["t1"]

Searching == Client.pc # "idle" /\ Client.op \in SearchOps

\* the operation results the cache holds
OperationEntries ==
    {k \in DOMAIN redis_cache : IsOpKey(k) /\ RedisHolds(redis_cache, k, now)}

\* C15: when a write path (update_node_with_cache with any property set,
\* create_relationship_with_cache, archive_nodes, store_document) has returned, the
\* cache holds no operation result, so that the next hybrid_search or
\* retrieve_with_context recomputes
C15_WritesFlushOperationCache ==
    (Client.pc = "idle" /\ lastCall.op \in WriteOps) => OperationEntries = {}

ServiceFailures == {"embedding", "vector_search", "traversal", "task_lookup"}

\* C17: when the embedding call, the vector search or a graph query of the
\* traversal or of the task lookup fails, the search ends with an error, returns no
\* result (neither a partial nor a cached one) and has written no operation result;
\* after a failed hybrid_search the cache holds no result under its key unless one
\* was there before the call
C17_FailureAbortsWithoutCaching ==
    /\ (Searching /\ Client.failed_at \in ServiceFailures) =>
          /\ Client.pc = "done"
          /\ Client.outcome = "error"
          /\ Client.ret = None
          /\ ~Client.wrote
          /\ ~Client.hit
    /\ (/\ Client.pc = "idle"
        /\ lastCall.op = "hybrid_search"
        /\ lastCall.failed_at \in ServiceFailures
        /\ ~lastCall.held) => ~RedisHolds(redis_cache, lastCall.key, now)

\* a hybrid_search failed in the traversal, and the retry has recomputed its result
C17_Witness ==
    /\ lastCall.op = "hybrid_search"
    /\ lastCall.failed_at = "traversal"
    /\ lastCall.outcome = "error"
    /\ Searching
    /\ Client.pc = "done"
    /\ OwnKey(Client) = lastCall.key
    /\ Client.src = "computed"
    /\ Client.ret # None

MergedProperties == res.op = "merge_properties"

\* the fields the rules are about
RuleFields(exempt) ==
    ((DOMAIN res.source_entity) \cup (DOMAIN res.target_entity)) \ ({"id", "labels"} \cup exempt)

\* the instant a date value denotes
Instant(v) == IF v >= IsoBase THEN v - IsoBase ELSE v

\* the chronologically later of two values (the target's when they denote one instant)
Later(source_value, target_value) ==
    IF Instant(source_value) > Instant(target_value) THEN source_value ELSE target_value

Empty(key, value) == IF key = "name" THEN value = <<>> ELSE value = 0

\* the later of two dates as _merge_properties stores it: the parsed datetime when
\* both values are set, the target's value when either is empty
LaterParsed(source_value, target_value) ==
    IF source_value # 0 /\ target_value # 0
    THEN (IF Instant(source_value) > Instant(target_value)
          THEN Instant(source_value) ELSE Instant(target_value))
    ELSE target_value

\* the value the stated rules give a field, a date being compared as stated or as
\* _merge_properties stores it
RuleValue(key, as_stored) ==
    LET s == res.source_entity
        t == res.target_entity
    IN  IF key \notin DOMAIN t THEN s[key]
        ELSE IF key \notin DOMAIN s THEN t[key]
        ELSE IF res.merge_strategy = "target_wins" THEN t[key]
        ELSE IF res.merge_strategy = "source_wins" THEN s[key]
        ELSE IF key \in {"created_at", "timestamp"}
             THEN (IF as_stored THEN LaterParsed(s[key], t[key]) ELSE Later(s[key], t[key]))
        ELSE IF key = "confidence" THEN (IF s[key] > t[key] THEN s[key] ELSE t[key])
        ELSE IF Empty(key, t[key]) /\ ~Empty(key, s[key]) THEN s[key]
        ELSE t[key]

\* C20 as stated: every field other than id / labels follows the rules: the
\* source's value when the target lacks the field; for a field of both, the
\* target's under target_wins, the source's under source_wins, and under newer_wins
\* the later value for dates, the maximum for confidence, else the target's unless
\* it is empty and the source's is not; a field of the target alone is unchanged
C20_FieldRules ==
    MergedProperties =>
        \A key \in RuleFields({}) :
            key \in DOMAIN res.merged /\ res.merged[key] = RuleValue(key, FALSE)

\* C20 amended: the rules hold for every field other than id, labels and
\* merged_count, a date of both entities under newer_wins being the later of the two
\* instants when both values are set and the target's value when either is empty;
\* merged_count is the target's count (0 when it has none) plus one
C20_FieldRulesAmended ==
    MergedProperties =>
        /\ \A key \in RuleFields({"merged_count"}) :
              key \in DOMAIN res.merged /\ res.merged[key] = RuleValue(key, TRUE)
        /\ res.merged.merged_count =
              (IF "merged_count" \in DOMAIN res.target_entity
               THEN res.target_entity.merged_count ELSE 0) + 1
        /\ DOMAIN res.merged = RuleFields({}) \cup {"merged_count"}

\* a newer_wins merge where both entities carry a date and a name, the source's
\* date is the later one and the target's name is empty
C20_Witness ==
    /\ MergedProperties
    /\ res.merge_strategy = "newer_wins"
    /\ "created_at" \in DOMAIN res.source_entity
    /\ "created_at" \in DOMAIN res.target_entity
    /\ res.source_entity.created_at = 2
    /\ res.target_entity.created_at = 1
    /\ res.merged.created_at = 2
    /\ "name" \in DOMAIN res.source_entity
    /\ "name" \in DOMAIN res.target_entity
    /\ res.target_entity.name = <<>>
    /\ res.merged.name = <<"al">>

(***************************************************************************)
(* Claims on the graph store API                                           *)
(***************************************************************************)
NodeOps == {"create_node", "merge_node"}
RelOps == {"create_relationship", "merge_relationship"}

\* the label is declared and every property is declared for it
DeclaredNode(in) ==
    IF in.label \in DOMAIN NODE_TYPES
    THEN DOMAIN in.properties \subseteq NODE_TYPES[in.label]
    ELSE FALSE

\* the type is declared, the label pair is declared for it, every property too
DeclaredRel(in) ==
    IF in.rel_type \in DOMAIN RELATIONSHIP_TYPES
    THEN /\ in.from_label \in RELATIONSHIP_TYPES[in.rel_type].valid_sources
         /\ in.to_label \in RELATIONSHIP_TYPES[in.rel_type].valid_targets
         /\ DOMAIN in.rel_props \subseteq RELATIONSHIP_TYPES[in.rel_type].properties
    ELSE FALSE

Undeclared(r) ==
    IF r.op \in NodeOps THEN ~DeclaredNode(r.in)
    ELSE IF r.op \in RelOps THEN ~DeclaredRel(r.in)
    ELSE FALSE

\* C12: create_node, merge_node, create_relationship and merge_relationship
\* raise a validation error for an undeclared label, relationship type, property
\* or label pair before a session is opened, and the graph is unchanged.
C12_ValidationBeforeStore ==
    [][(res' # res /\ Undeclared(res')) =>
          /\ res'.result = "ValueError"
          /\ ~res'.session
          /\ UNCHANGED <<nodes, edges>>]_vars

\* C12 witness: a relationship of a declared type between two stored nodes was
\* rejected because the label pair is not declared for the type
C12_Witness ==
    /\ res.op \in RelOps
    /\ res.result = "ValueError"
    /\ res.in.rel_type \in DOMAIN RELATIONSHIP_TYPES
    /\ res.in.rel_props = NoProps
    /\ EndpointsMatch(nodes, res.in)
    /\ res.in.to_label \notin RELATIONSHIP_TYPES[res.in.rel_type].valid_targets

\* C13: every stored node has only properties declared for its type.
C13_PropertiesDeclared ==
    \A id \in DOMAIN nodes :
        Exists(nodes, id) => DOMAIN Props(nodes, id) \subseteq NODE_TYPES[Label(nodes, id)]

\* C14: the graph holds at most one relationship per (source, type, target).
C14_OneRelationshipPerTuple ==
    \A k \in DOMAIN edges : edges[k] <= 1

(***************************************************************************)
(* Claims on the cache layer                                               *)
(***************************************************************************)
AccessFields == {"last_accessed_at", "access_count"}
Content(props) == [k \in (DOMAIN props) \ AccessFields |-> props[k]]
SameContent(o1, o2) ==
    IF IsNone(o1) \/ IsNone(o2) THEN o1 = o2 ELSE Content(Val(o1)) = Content(Val(o2))

Returned(p, op) == proc[p].pc = "done" /\ proc[p].op = op

\* the get was issued right after an update of the same key returned
RightAfterUpdate(p) ==
    /\ Returned(p, "get")
    /\ proc[p].after.op = "update"
    /\ proc[p].after.key = Key(p)

PosOf(id, title) == CHOOSE i \in 1..Len(writes[id]) : writes[id][i] = title

\* C2: under any interleaving of get_node_with_cache and update_node_with_cache,
\* a get that starts after an update of the same key has returned never returns
\* node data older than what that update wrote.
C2_NoStaleReadAfterUpdate ==
    \A p \in Threads :
        (Returned(p, "get") /\ ~IsNone(proc[p].ret)) =>
            PosOf(proc[p].node_id, Val(proc[p].ret).title) >= proc[p].floor

\* C16: what get_node_with_cache returns is the node as the graph store holds it
\* (access bookkeeping aside), also after merge_entities has merged the node or
\* Neo4jWrapper.delete_node has removed it: no cached pre-merge or pre-delete data
C16_ReadsSeeMergesAndDeletes ==
    res.op = "get_node_with_cache" =>
        SameContent(res.ret, get_node(nodes, res.node_type, res.node_id))

C18_EvictsOldestInserted ==
    (res.op = "set" /\ res.evicted # {}) =>
        \A k \in res.evicted : \A j \in res.before : res.stamp[k] <= res.stamp[j]

\* the threads inside a with self.lock block
InsideLock == {t \in Threads : proc[t].holds}

\* C22: calls of get, set, delete and clear from several threads run one at a
\* time under the lock of the cache: never two threads inside a method body, no
\* call fails, the map never holds more than max_size entries, and a get returns
\* None or the value of the newest completed set of its key that has not been
\* deleted, evicted or expired.
C22_CallsAtomicUnderLock ==
    /\ Cardinality(InsideLock) <= 1
    /\ Len(node_cache) <= NodeCacheMaxSize
    /\ \A t \in Threads : ~proc[t].raised
    /\ (lastCall.op = "get" /\ ~IsNone(lastCall.ret)) => lastCall.ret = lastCall.expected

C22_Witness ==
    /\ lastCall.op = "get"
    /\ ~IsNone(lastCall.ret)
    /\ \E t \in Threads, u \in Threads :
          /\ proc[t].holds /\ proc[t].pc = "set_put" /\ proc[t].key = lastCall.key
          /\ proc[u].pc = "acquire"

\* the runs of run_pruning_job in progress
RunsInProgress == {th \in PruneThreads : pruning.runs[th] > 0}

\* C19: at most one execution of run_pruning_job is in progress at any time,
\* whichever trigger (a timer of schedule_pruning_job, /admin/prune) asks for a run
C19_OnePruningRunAtATime == Cardinality(RunsInProgress) <= 1

AllStrategies == <<"identifiers", "fuzzy", "embedding", "relationships">>

Resolved == res.op = "resolve"
MergeDone == res.op = "merge"
MergeOk == MergeDone /\ res.result = "ok"

ById == match_by_identifiers(nodes, vectors, res.data, res.entity_type)
ByFuzzy == match_by_fuzzy_name(nodes, vectors, res.data, res.entity_type)
ByEmbedding == match_by_embedding(nodes, vectors, res.data, res.entity_type)
ByRelationships == match_by_relationships_in(nodes, edges, res.data, res.entity_type)

ResultIn(hits) == ~IsNone(res.result) /\ Val(res.result).id \in hits

\* C3: resolve_entity evaluates identifier, fuzzy-name, embedding and
\* relationship-overlap matching in that order and returns the hit of the first
\* strategy that has one, evaluating no later strategy; with no hit it returns None.
C3_StrategyPriority ==
    Resolved =>
        /\ ById # {} => res.tried = SubSeq(AllStrategies, 1, 1) /\ ResultIn(ById)
        /\ (ById = {} /\ ByFuzzy # {}) =>
              res.tried = SubSeq(AllStrategies, 1, 2) /\ ResultIn(ByFuzzy)
        /\ (ById = {} /\ ByFuzzy = {} /\ ByEmbedding # {}) =>
              res.tried = SubSeq(AllStrategies, 1, 3) /\ ResultIn(ByEmbedding)
        /\ (ById = {} /\ ByFuzzy = {} /\ ByEmbedding = {} /\ ByRelationships # {}) =>
              res.tried = AllStrategies /\ ResultIn(ByRelationships)
        /\ (ById = {} /\ ByFuzzy = {} /\ ByEmbedding = {} /\ ByRelationships = {}) =>
              res.tried = AllStrategies /\ IsNone(res.result)

\* C3 witness: the candidate matches one node by identifier and another node by
\* fuzzy name, and the identifier match was returned
C3_Witness ==
    /\ Resolved
    /\ ById # {} /\ ByFuzzy # {} /\ ById \cap ByFuzzy = {}
    /\ ResultIn(ById)

IsMerged(g, id) == Exists(g, id) /\ Has(Props(g, id), "merged") /\ Props(g, id).merged

\* C4: once merge_entities(A, B) has marked A as merged into B, resolve_entity
\* never returns A, whatever the candidate and the strategy that matches.
C4_MergedNeverResolved ==
    (Resolved /\ ~IsNone(res.result)) =>
        ~(/\ IsMerged(nodes, Val(res.result).id)
          /\ Props(nodes, Val(res.result).id).merged_into # Val(res.result).id)

\* C5: after a successful merge_entities(A, B) the node A still exists and has
\* merged = true and merged_into = B.
C5_SourceMarkedMerged ==
    MergeOk =>
        /\ Exists(nodes, res.source_id)
        /\ IsMerged(nodes, res.source_id)
        /\ Props(nodes, res.source_id).merged_into = res.target_id

\* C5 witness: a merge of two different nodes succeeded
C5_Witness ==
    /\ MergeOk
    /\ res.source_id # res.target_id
    /\ IsMerged(nodes, res.source_id)
    /\ Props(nodes, res.source_id).merged_into = res.target_id

MergeStep == res'.op = "merge" /\ res' # res

\* C6: a successful merge_entities(A, B) gives B a relationship of the same type
\* and direction for every relationship A had, adds at most one relationship per
\* (direction, type, other endpoint) and none where B already had one.
C6_TransferKeepsAndNeverDuplicates ==
    [][(MergeStep /\ res'.result = "ok") =>
         LET A == res'.source_id
             B == res'.target_id
         IN  /\ \A t \in RelTypes, X \in NodeIds :
                   /\ RelCount(edges, A, t, X) > 0 => RelCount(edges', B, t, X) > 0
                   /\ RelCount(edges, X, t, A) > 0 => RelCount(edges', X, t, B) > 0
             /\ \A k \in EdgeKeys :
                   (k[1] = B \/ k[3] = B) =>
                       /\ edges'[k] <= edges[k] + 1
                       /\ edges[k] > 0 => edges'[k] = edges[k]
             /\ \A k \in EdgeKeys : edges'[k] >= edges[k]]_vars

\* C6 witness: A had two relationships of one type to the same node, B had none,
\* and after the merge B has exactly one
C6_Witness ==
    /\ MergeOk
    /\ res.source_id # res.target_id
    /\ \E i, j \in 1..Len(res.outgoing_rels) :
          /\ i # j
          /\ res.outgoing_rels[i] = res.outgoing_rels[j]
          /\ res.outgoing_rels[i].other \notin {res.source_id, res.target_id}
          /\ RelCount(edges, res.target_id, res.outgoing_rels[i].rel_type,
                      res.outgoing_rels[i].other) = 1

ResolvesTo(g, id, entity_type) == Exists(g, id) /\ Label(g, id) = entity_type

\* C7: merge_entities fails when either id does not resolve to a node of the given
\* type, and then changes no node, no relationship and no embedding.
C7_FailedMergeChangesNothing ==
    [][(MergeStep /\ ~(/\ ResolvesTo(nodes, res'.source_id, res'.entity_type)
                       /\ ResolvesTo(nodes, res'.target_id, res'.entity_type))) =>
         /\ res'.result = "error"
         /\ UNCHANGED <<nodes, edges, vectors>>]_vars

\* C7 witness: a merge failed although one of the two ids names a stored node
C7_Witness ==
    /\ MergeDone
    /\ res.result = "error"
    /\ Exists(nodes, res.source_id) \/ Exists(nodes, res.target_id)

PrevMergedCount(entity) == IF Has(entity, "merged_count") THEN entity.merged_count ELSE 0

\* C8: a successful merge sets the target's merged_count to the target's previous
\* merged_count (0 when absent) plus one, whatever the source's merged_count and
\* the merge strategy.
C8_MergedCountIncrements ==
    MergeOk =>
        Props(nodes, res.target_id).merged_count = PrevMergedCount(res.target_entity) + 1

\* C8 witness: the source had absorbed a node before, the target had not, and the
\* target's merged_count is 1
C8_Witness ==
    /\ MergeOk
    /\ res.source_id # res.target_id
    /\ Has(res.source_entity, "merged_count")
    /\ ~Has(res.target_entity, "merged_count")
    /\ Props(nodes, res.target_id).merged_count = 1

(***************************************************************************)
(* Claims on batch resolution and the pairwise score                       *)
(***************************************************************************)
BatchDone == res.op = "batch_resolve_entities"
Fetched == {res.entities[k] : k \in 1..Len(res.entities)}
PairOf(c) == {c.source_id, c.target_id}
ReturnedPairs == {PairOf(res.ret[k]) : k \in 1..Len(res.ret)}
PairScore(x, y) == calculate_entity_similarity(edges, Props(nodes, x), Props(nodes, y))
Reaches(x, y) == ScoreAtLeast(PairScore(x, y), res.match_threshold)

\* what a finished batch_resolve_entities call has returned
BatchResult ==
    BatchDone =>
        /\ \A x \in Fetched : /\ Label(nodes, x) = res.entity_type
                              /\ NotMerged(Props(nodes, x))
        /\ \A k \in 1..Len(res.ret) :
              /\ res.ret[k].source_id # res.ret[k].target_id
              /\ PairOf(res.ret[k]) \subseteq Fetched
              /\ \A l \in 1..Len(res.ret) : l # k => PairOf(res.ret[l]) # PairOf(res.ret[k])
        /\ \A x \in Fetched : \A y \in Fetched \ {x} :
              /\ (Reaches(x, y) /\ Reaches(y, x)) => {x, y} \in ReturnedPairs
              /\ (~Reaches(x, y) /\ ~Reaches(y, x)) => {x, y} \notin ReturnedPairs

Reverse(s) == [k \in 1..Len(s) |-> s[Len(s) + 1 - k]]

\* C30: the pairwise score is symmetric, so the candidates of a batch do not
\* depend on the order in which the store returns the nodes.
C30_ScoreSymmetric ==
    BatchDone =>
        /\ \A x \in Fetched, y \in Fetched :
              ScoreEq(PairScore(x, y), PairScore(y, x))
        /\ LET other == batch_resolve_entities(nodes, edges, Reverse(res.entities),
                                               res.entity_type, res.match_threshold)
           IN  ReturnedPairs = {PairOf(other[k]) : k \in 1..Len(other)}

(***************************************************************************)
(* Claims on the bookkeeping fields and relationships left by merges       *)
(***************************************************************************)
\* C25: the target of a merge that has returned is live: merging S into a
\* different node T that was live leaves T without merged = true and without
\* merged_into, whatever bookkeeping fields S carries.
C25_TargetStaysLive ==
    (/\ MergeOk
     /\ res.source_id # res.target_id
     /\ ~Has(res.target_entity, "merged")
     /\ ~Has(res.target_entity, "merged_into")) =>
        /\ ~IsMerged(nodes, res.target_id)
        /\ ~Has(Props(nodes, res.target_id), "merged_into")

\* following merged_into from id for at most n steps ends at a node that is
\* not merged
RECURSIVE EndsLive(_, _, _)
EndsLive(g, id, n) ==
    IF ~IsMerged(g, id) THEN TRUE
    ELSE IF n = 0 \/ ~Has(Props(g, id), "merged_into") THEN FALSE
    ELSE EndsLive(g, Props(g, id).merged_into, n - 1)

\* C26: the merged_into pointers never form a cycle: no node is merged into
\* itself, and from every merged node the pointers lead to a node that is not
\* merged.
C26_MergedIntoAcyclic ==
    \A i \in NodeIds :
        IsMerged(nodes, i) =>
            /\ Props(nodes, i).merged_into # i
            /\ EndsLive(nodes, i, Cardinality(NodeIds))

\* C27: a merge that has returned has created no relationship from its target
\* to its target.
C27_NoSelfLoopOnTarget ==
    [][(MergeStep /\ res'.result = "ok") =>
         \A t \in RelTypes :
             RelCount(edges', res'.target_id, t, res'.target_id)
                 <= RelCount(edges, res'.target_id, t, res'.target_id)]_vars
====
